---- MODULE Spec2Model ----
(***************************************************************************)
(* HolmGenome: the staged genome pipeline of HolmGenome.py and its stage   *)
(* modules src/qc.py, src/assembly.py and src/annotation.py.               *)
(*                                                                         *)
(* A run is one process.  `entry` says which program was started:          *)
(*   "HolmGenome"  HolmGenome.main, the controller                         *)
(*   "qc.py"       qc.main started as a script                             *)
(*   "qc"          the stage functions of qc.py (setup_directories,        *)
(*                 pair_fastq_files, process_samples, run_fastqc) driven   *)
(*                 in the order of qc.main's body with a resolved argument *)
(*                 namespace                                               *)
(*   "assembly.py" assembly.main started as a script                       *)
(*   "annotation.py" annotation.main started as a script                   *)
(*   "pair_fastq_files" one call of pair_fastq_files of qc.py              *)
(*   "QC.py"       main of src/QC.py, the variant of the trim stage that   *)
(*                 pairs sorted file names at adjacent positions           *)
(*                                                                         *)
(* `invocations` is the trace of the Stage Runners (run_subprocess of      *)
(* qc.py, assembly.py and annotation.py); QC.py starts its tools with      *)
(* subprocess.run directly and keeps the pairs it trims in `paired`.       *)
(*                                                                         *)
(* File names are sequences of tokens (one token is a run of characters    *)
(* that the code's suffix tests never split), paths are sequences of file  *)
(* names, and the file system is a set of regular files and a set of       *)
(* directories.  External tools are nondeterministic in their exit status. *)
(***************************************************************************)
EXTENDS Naturals, Sequences, FiniteSets

VARIABLES entry, pc, phase, args, environ, files, dirs, dirs0,
          paired, todo, pending, invocations, logs, warnings,
          exit_status, exit_message

vars == <<entry, pc, phase, args, environ, files, dirs, dirs0,
          paired, todo, pending, invocations, logs, warnings,
          exit_status, exit_message>>

----------------------------------------------------------------------------
(* Bounds of the model.                                                    *)

\* Largest number of read files in the raw input directory.
MaxRawFiles == 4

\* Largest number of read files left in the trimmed-data tree.
MaxTrimFiles == 4

----------------------------------------------------------------------------
(* Strings: str.endswith, the `in` test, str.replace(old, '').             *)

EndsWith(s, suf) ==
    /\ Len(s) >= Len(suf)
    /\ SubSeq(s, Len(s) - Len(suf) + 1, Len(s)) = suf

MatchAt(s, sub, i) ==
    /\ i + Len(sub) <= Len(s) + 1
    /\ SubSeq(s, i, i + Len(sub) - 1) = sub

Contains(s, sub) == \E i \in 1..Len(s) : MatchAt(s, sub, i)

RECURSIVE ReplaceFrom(_, _, _)
ReplaceFrom(s, sub, i) ==
    IF i > Len(s) THEN <<>>
    ELSE IF MatchAt(s, sub, i) THEN ReplaceFrom(s, sub, i + Len(sub))
    ELSE <<s[i]>> \o ReplaceFrom(s, sub, i + 1)

\* s.replace(sub, ''): every occurrence of sub is removed, left to right.
Replace(s, sub) == ReplaceFrom(s, sub, 1)

----------------------------------------------------------------------------
(* Paths: os.path.join, basename, dirname; sorted() on path strings.       *)

join(p, name) == Append(p, name)
basename(p) == p[Len(p)]
dirname(p) == SubSeq(p, 1, Len(p) - 1)

\* The tokens in ascending order of their character strings.
TokenOrder ==
    <<".1", ".fasta", ".fastq", ".gz", "/", "Trim_data",
      "_R1_001", "_R1_paired", "_R1_trimmed", "_R1_unpaired",
      "_R2_001", "_R2_paired", "_R2_trimmed", "_R2_unpaired",
      "a", "b", "out">>

TokenRank(t) == CHOOSE i \in 1..Len(TokenOrder) : TokenOrder[i] = t

RECURSIVE PathStr(_)
\* The path as one string: its names joined by the separator.
PathStr(p) ==
    IF Len(p) = 0 THEN <<>>
    ELSE IF Len(p) = 1 THEN p[1]
    ELSE p[1] \o <<"/">> \o PathStr(Tail(p))

RECURSIVE StrLess(_, _)
\* s < t as Python compares strings.
StrLess(s, t) ==
    IF Len(t) = 0 THEN FALSE
    ELSE IF Len(s) = 0 THEN TRUE
    ELSE IF s[1] = t[1] THEN StrLess(Tail(s), Tail(t))
    ELSE TokenRank(s[1]) < TokenRank(t[1])

RECURSIVE Orders(_)
\* Every order in which the members of S can be listed.
Orders(S) ==
    IF S = {} THEN {<<>>}
    ELSE UNION {{<<x>> \o s : s \in Orders(S \ {x})} : x \in S}

\* sorted(S) for a set of paths: each path stands after the paths whose
\* string is less than its own.
sorted(S) ==
    [i \in 1..Cardinality(S) |->
        CHOOSE x \in S :
            Cardinality({y \in S : StrLess(PathStr(y), PathStr(x))}) = i - 1]

----------------------------------------------------------------------------
(* The file system.                                                        *)

Prefixes(p) == {SubSeq(p, 1, k) : k \in 1..Len(p)}

\* The call left out.
makedirs_Skipped(ds, p) == ds

\* os.makedirs(p, exist_ok=True): p and every missing ancestor.
makedirs(ds, p) == ds \union Prefixes(p)

\* The keyword left at its default.
exist_ok_False == FALSE

\* exist_ok=True, as every call of os.makedirs in the layout set-up passes.
exist_ok == TRUE

\* os.makedirs raises FileExistsError when p is there and exist_ok is off.
makedirs_raises(ds, p) == ~exist_ok /\ p \in ds

\* A glob pattern of the two shapes the code uses: '*' + tail, and
\* '*' + tail + '*' when open.
Star(tail) == [tail |-> tail, open |-> FALSE]
StarStar(tail) == [tail |-> tail, open |-> TRUE]
fnmatch(name, pat) == IF pat.open THEN Contains(name, pat.tail) ELSE EndsWith(name, pat.tail)

\* glob.glob(os.path.join(dir, pattern)): the entries of dir, files and
\* directories, whose name matches the pattern.
GlobIn(fs, ds, dir, pat) ==
    {p \in fs \union ds : Len(p) = Len(dir) + 1 /\ dirname(p) = dir /\ fnmatch(basename(p), pat)}

\* glob.glob(os.path.join(dir, '**', pattern), recursive=True): the entries
\* at any depth below dir.
GlobRec(fs, ds, dir, pat) ==
    {p \in fs \union ds :
        Len(p) > Len(dir) /\ SubSeq(p, 1, Len(dir)) = dir /\ fnmatch(basename(p), pat)}

NoFile == <<>>

InDir == << <<"in">> >>
OutDir == << <<"out">> >>
Cwd == << <<"cwd">> >>

FASTQ == <<".fastq">>
FASTQ_GZ == <<".fastq", ".gz">>
FASTA == <<".fasta">>

----------------------------------------------------------------------------
(* Process exit, the Stage Runner, the environment of a child process.     *)

ReturnCodes == {0, 1}

\* sys.exit called with no argument where the code passes a message.
ExitStatus_NoMessage(how) ==
    CASE how = "return" -> 0
      [] how = "sys.exit(message)" -> 0
      [] how = "uncaught exception" -> 1
      [] how = "parser.error" -> 2

\* The status the process ends with: a normal return of main, sys.exit
\* with a message string, an exception nobody catches, argparse's error.
ExitStatus(how) ==
    CASE how = "return" -> 0
      [] how = "sys.exit(message)" -> 1
      [] how = "uncaught exception" -> 1
      [] how = "parser.error" -> 2

\* A runner that does not look at the exit status.
qc_command_failed_Ignored(rc) == FALSE

\* if result.returncode != 0: ... sys.exit(...)
qc_command_failed(rc) == rc # 0
assembly_command_failed(rc) == rc # 0
annotation_command_failed(rc) == rc # 0

CommandFailed(mod, rc) ==
    CASE mod = "qc" -> qc_command_failed(rc)
      [] mod = "assembly" -> assembly_command_failed(rc)
      [] mod = "annotation" -> annotation_command_failed(rc)

\* subprocess.run without env= hands the child the process environment.
qc_child_env(env) == env
annotation_child_env(env) == env
\* env = os.environ.copy(); del env['JAVA_TOOL_OPTIONS']; subprocess.run(env=env)
assembly_child_env(env) == env \ {"JAVA_TOOL_OPTIONS"}

ChildEnv(mod, env) ==
    CASE mod = "qc" -> qc_child_env(env)
      [] mod = "assembly" -> assembly_child_env(env)
      [] mod = "annotation" -> annotation_child_env(env)

\* One external command as run_subprocess sees it.
Command(mod, stage, tool, sample, inputs, outputs, outdir, logf) ==
    [module |-> mod, stage |-> stage, tool |-> tool, sample |-> sample,
     inputs |-> inputs, outputs |-> outputs, outdir |-> outdir, log |-> logf]

\* What run_subprocess leaves in the trace: the command, the environment
\* it ran in and its exit status.
Ran(cmd, rc) ==
    [module |-> cmd.module, stage |-> cmd.stage, tool |-> cmd.tool,
     sample |-> cmd.sample, inputs |-> cmd.inputs, outputs |-> cmd.outputs,
     outdir |-> cmd.outdir, log |-> cmd.log,
     env |-> ChildEnv(cmd.module, environ), rc |-> rc]

\* The log opened for writing from its start.
qc_log_mode_Truncate == "w"

\* with open(log_file, 'a') as f
qc_log_mode == "a"
assembly_log_mode == "a"
annotation_log_mode == "a"

\* with open('trimmomatic_output.log', 'a') as f, and the same for bbduk
QC_log_mode == "a"

LogMode(mod) ==
    CASE mod = "qc" -> qc_log_mode
      [] mod = "assembly" -> assembly_log_mode
      [] mod = "annotation" -> annotation_log_mode
      [] mod = "QC" -> QC_log_mode

\* open(log_file, mode) on the record of everything written to the log
\* files: 'a' keeps what the file holds, 'w' drops it.
open(lg, path, mode) ==
    IF mode = "a" THEN lg ELSE SelectSeq(lg, LAMBDA w : w.path # path)

\* What one log file holds.
Content(lg, path) == SelectSeq(lg, LAMBDA w : w.path = path)

\* subprocess.run(cmd, stdout=f, stderr=subprocess.STDOUT) on the opened log.
Written(lg, cmd, rc) ==
    Append(open(lg, cmd.log, LogMode(cmd.module)),
           [path |-> cmd.log, tool |-> cmd.tool, run |-> "this run"])

\* run_subprocess up to the test of the exit status.
RunSubprocess(cmd, rc) ==
    /\ invocations' = Append(invocations, Ran(cmd, rc))
    /\ logs' = Written(logs, cmd, rc)

\* The message with another file in place of the log.
FailureMessagePath_Stdout(log_file) == <<"stdout">>

\* f'Error: Command failed. Check {log_file} for details.'
FailureMessagePath(log_file) == log_file

\* sys.exit(message), or the exception nobody catches.
Exit(how, text, path) ==
    /\ pc' = "aborted"
    /\ exit_status' = <<ExitStatus(how)>>
    /\ exit_message' = [text |-> text, path |-> path]

\* The statement after step s of a main whose body is the sequence steps.
StepAfter(steps, s) ==
    LET i == CHOOSE k \in 1..Len(steps) : steps[k] = s
    IN  IF i = Len(steps) THEN "return" ELSE steps[i + 1]

Goto(next) ==
    IF next = "return"
    THEN /\ pc' = "done"
         /\ exit_status' = <<ExitStatus("return")>>
         /\ UNCHANGED exit_message
    ELSE /\ pc' = next
         /\ UNCHANGED <<exit_status, exit_message>>

Warning(mod, text, subject) ==
    [module |-> mod, level |-> "warning", text |-> text, subject |-> subject]

----------------------------------------------------------------------------
(* qc.py                                                                   *)

\* qc.main with the raw read-quality pass moved before the trim loop.
QcMainSteps_RawQcFirst ==
    <<"setup_directories", "pair_fastq_files", "run_fastqc_raw", "process_samples",
      "run_fastqc_trim">>

\* The body of qc.main after the arguments are parsed.
QcMainSteps ==
    <<"setup_directories", "pair_fastq_files", "process_samples",
      "run_fastqc_raw", "run_fastqc_trim">>

TrimDataDir(base_dir) == join(base_dir, <<"Trim_data">>)
RawQcDir(base_dir) == join(join(base_dir, <<"QC">>), <<"raw_data">>)
TrimQcDir(base_dir) == join(join(base_dir, <<"QC">>), <<"Trim">>)

qc_setup_directories(ds, base_dir) ==
    makedirs(makedirs(makedirs(ds, TrimDataDir(base_dir)), RawQcDir(base_dir)),
             TrimQcDir(base_dir))

qc_setup_raises(ds, base_dir) ==
    \E d \in {TrimDataDir(base_dir), RawQcDir(base_dir), TrimQcDir(base_dir)} :
        makedirs_raises(ds, d)

\* A list of entries in place of the dict: every file makes a new entry.
SetRole_AlwaysNew(pf, sample, role, file) ==
    Append(pf, IF role = "R1"
               THEN [sample |-> sample, R1 |-> file, R2 |-> NoFile]
               ELSE [sample |-> sample, R1 |-> NoFile, R2 |-> file])

\* paired_files.setdefault(sample_name, {})[role] = file, on a dict that
\* keeps its keys in insertion order.
SetRole(pf, sample, role, file) ==
    IF \E i \in 1..Len(pf) : pf[i].sample = sample
    THEN [i \in 1..Len(pf) |->
            IF pf[i].sample = sample
            THEN IF role = "R1" THEN [pf[i] EXCEPT !.R1 = file]
                                ELSE [pf[i] EXCEPT !.R2 = file]
            ELSE pf[i]]
    ELSE Append(pf, IF role = "R1"
                    THEN [sample |-> sample, R1 |-> file, R2 |-> NoFile]
                    ELSE [sample |-> sample, R1 |-> NoFile, R2 |-> file])

RECURSIVE qc_pair_loop(_, _, _, _)
\* for file in fastq_files: the endswith tests and the two replace calls.
qc_pair_loop(pf, fastq_files, full_suffix1, full_suffix2) ==
    IF fastq_files = <<>> THEN pf
    ELSE LET file == Head(fastq_files)
             base == basename(file)
             set == IF EndsWith(base, full_suffix1)
                    THEN SetRole(pf, Replace(base, full_suffix1), "R1", file)
                    ELSE IF EndsWith(base, full_suffix2)
                    THEN SetRole(pf, Replace(base, full_suffix2), "R2", file)
                    ELSE pf
         IN  CHOOSE paired_files \in
                 {qc_pair_loop(pf2, Tail(fastq_files), full_suffix1, full_suffix2) :
                     pf2 \in {set}} : TRUE

\* pair_fastq_files of qc.py on the listings the two globs of each
\* extension returned: list_fastq for '.fastq', list_gz for '.fastq.gz'.
qc_pair_fastq_files(list_fastq, list_gz, suffix1, suffix2) ==
    qc_pair_loop(
        qc_pair_loop(<<>>, list_fastq, suffix1 \o FASTQ, suffix2 \o FASTQ),
        list_gz, suffix1 \o FASTQ_GZ, suffix2 \o FASTQ_GZ)

\* The listings glob may return for one extension: the first-mate matches
\* in any order, then the second-mate matches in any order.
QcListings(fs, ds, input_dir, suffix1, suffix2, ext) ==
    {o1 \o o2 :
        o1 \in Orders(GlobIn(fs, ds, input_dir, Star(suffix1 \o ext))),
        o2 \in Orders(GlobIn(fs, ds, input_dir, Star(suffix2 \o ext)))}

\* The test with its second half dropped.
qc_has_both_FirstOnly(e) == e.R1 # NoFile

\* if 'R1' in files and 'R2' in files
qc_has_both(e) == e.R1 # NoFile /\ e.R2 # NoFile

Name(sample, suffix, ext) == sample \o suffix \o ext

\* The output files process_samples names for one sample.
qc_trim_outputs(base_output_path, sample, bbduk) ==
    IF bbduk
    THEN {join(base_output_path, Name(sample, <<"_R1_trimmed">>, FASTQ_GZ)),
          join(base_output_path, Name(sample, <<"_R2_trimmed">>, FASTQ_GZ))}
    ELSE {join(base_output_path, Name(sample, <<"_R1_paired">>, FASTQ_GZ)),
          join(base_output_path, Name(sample, <<"_R1_unpaired">>, FASTQ_GZ)),
          join(base_output_path, Name(sample, <<"_R2_paired">>, FASTQ_GZ)),
          join(base_output_path, Name(sample, <<"_R2_unpaired">>, FASTQ_GZ))}

qc_trim_command(e, a) ==
    LET base_output_path == join(TrimDataDir(a.output_dir), e.sample)
    IN  Command("qc", "Trim", IF a.bbduk THEN "bbduk" ELSE "trimmomatic",
                e.sample, {e.R1, e.R2},
                qc_trim_outputs(base_output_path, e.sample, a.bbduk),
                base_output_path,
                join(Cwd, IF a.bbduk THEN <<"bbduk_output.log">>
                                     ELSE <<"trimmomatic_output.log">>))

qc_fastqc_command(stage, fastq_file, output_dir) ==
    Command("qc", stage, "fastqc", <<>>, {fastq_file}, {}, output_dir,
            join(Cwd, <<"fastqc_output.log">>))

----------------------------------------------------------------------------
(* The inputs a run may find.                                              *)

\* Base names of read files in the raw input directory: two complete
\* compressed pairs, the first mate of the first pair uncompressed, and a
\* first mate whose name holds the suffix twice.
RawNames ==
    {Name(<<"a">>, <<"_R1_001">>, FASTQ_GZ), Name(<<"a">>, <<"_R2_001">>, FASTQ_GZ),
     Name(<<"b">>, <<"_R1_001">>, FASTQ_GZ), Name(<<"b">>, <<"_R2_001">>, FASTQ_GZ),
     Name(<<"a">>, <<"_R1_001">>, FASTQ),
     <<"a", "_R1_001", ".fastq", "_R1_001", ".fastq">>}

RawSets == {S \in SUBSET RawNames : Cardinality(S) <= MaxRawFiles}

\* What an earlier run may have left in the trimmed-data directory.
LeftInTrimData ==
    {{}, {join(TrimDataDir(OutDir), Name(<<"b">>, <<"_R1_paired">>, FASTQ_GZ))}}

Environments == {{"PATH"}, {"PATH", "JAVA_TOOL_OPTIONS"}}

\* What the log files in the working directory hold when the run starts:
\* nothing, or the output of an earlier run.
EarlierLogs ==
    {<<>>,
     <<[path |-> join(Cwd, <<"trimmomatic_output.log">>), tool |-> "trimmomatic",
        run |-> "earlier run"],
       [path |-> join(Cwd, <<"reformat_output.log">>), tool |-> "reformat",
        run |-> "earlier run"],
       [path |-> join(Cwd, <<"prokka_output.log">>), tool |-> "prokka",
        run |-> "earlier run"]>>}

NoArgs ==
    [input_dir |-> NoFile, output_dir |-> NoFile, suffix1 |-> <<>>, suffix2 |-> <<>>,
     bbduk |-> FALSE, has_bbduk |-> TRUE, filtered_contigs_dir |-> NoFile]

DirsOf(fs) == UNION {Prefixes(dirname(f)) : f \in fs}

InitRun(e, first, a, fs, ds) ==
    /\ entry = e
    /\ pc = first
    /\ phase = "call"
    /\ args = a
    /\ environ \in Environments
    /\ files = fs
    /\ dirs = ds
    /\ dirs0 = ds
    /\ paired = <<>>
    /\ todo = <<>>
    /\ pending = {}
    /\ invocations = <<>>
    /\ logs \in EarlierLogs
    /\ warnings = {}
    /\ exit_status = <<>>
    /\ exit_message = [text |-> "", path |-> NoFile]

\* The namespace the stage functions receive: with the attribute bbduk set
\* either way, or, as the parser of main defines no --bbduk option, without
\* that attribute.
InitQc ==
    \E raw \in RawSets, left \in LeftInTrimData, bbduk \in BOOLEAN, has_bbduk \in BOOLEAN :
        LET fs == {join(InDir, n) : n \in raw} \union left
        IN  /\ has_bbduk \/ ~bbduk
            /\ InitRun("qc", QcMainSteps[1],
                    [NoArgs EXCEPT !.input_dir = InDir, !.output_dir = OutDir,
                                   !.suffix1 = <<"_R1_001">>, !.suffix2 = <<"_R2_001">>,
                                   !.bbduk = bbduk, !.has_bbduk = has_bbduk],
                    fs, {InDir, Cwd} \union DirsOf(fs))

----------------------------------------------------------------------------
(* The QC stage: qc.main from setup_directories on.                        *)

QcSetupDirectories ==
    /\ entry = "qc" /\ pc = "setup_directories"
    /\ IF qc_setup_raises(dirs, args.output_dir)
       THEN /\ Exit("uncaught exception", "FileExistsError", NoFile)
            /\ UNCHANGED dirs
       ELSE /\ dirs' = qc_setup_directories(dirs, args.output_dir)
            /\ Goto(StepAfter(QcMainSteps, "setup_directories"))
    /\ UNCHANGED <<entry, phase, args, environ, files, dirs0, paired, todo,
                   pending, invocations, logs, warnings>>

QcPairFastqFiles ==
    /\ entry = "qc" /\ pc = "pair_fastq_files"
    /\ \E l1 \in QcListings(files, dirs, args.input_dir, args.suffix1, args.suffix2, FASTQ),
          l2 \in QcListings(files, dirs, args.input_dir, args.suffix1, args.suffix2, FASTQ_GZ) :
            paired' = qc_pair_fastq_files(l1, l2, args.suffix1, args.suffix2)
    /\ todo' = paired'
    /\ Goto(StepAfter(QcMainSteps, "pair_fastq_files"))
    /\ UNCHANGED <<entry, phase, args, environ, files, dirs, dirs0,
                   pending, invocations, logs, warnings>>

\* The loop stays on the sample it has just trimmed.
process_samples_rest_Again(items) == items

\* for sample, files in paired_files.items(): what is left after one turn.
process_samples_rest(items) == Tail(items)

\* One turn of the loop of process_samples.
QcProcessSample ==
    /\ entry = "qc" /\ pc = "process_samples" /\ todo # <<>>
    /\ LET e == Head(todo)
           cmd == qc_trim_command(e, args)
       IN  IF qc_has_both(e)
           THEN /\ dirs' = makedirs(dirs, cmd.outdir)
                /\ IF ~args.has_bbduk
                   THEN \* if args.bbduk: the namespace has no such attribute
                        /\ Exit("uncaught exception", "AttributeError", NoFile)
                        /\ UNCHANGED <<files, todo, invocations, logs>>
                   ELSE \E rc \in ReturnCodes :
                     /\ RunSubprocess(cmd, rc)
                     /\ IF CommandFailed("qc", rc)
                        THEN /\ Exit("sys.exit(message)", "Command failed", FailureMessagePath(cmd.log))
                             /\ UNCHANGED <<files, todo>>
                        ELSE /\ files' = files \union cmd.outputs
                             /\ todo' = process_samples_rest(todo)
                             /\ UNCHANGED <<pc, exit_status, exit_message>>
                /\ UNCHANGED warnings
           ELSE /\ warnings' = warnings \union
                                 {Warning("qc", "Missing pair for sample", e.sample)}
                /\ todo' = Tail(todo)
                /\ UNCHANGED <<pc, exit_status, exit_message, dirs, files, invocations, logs>>
    /\ UNCHANGED <<entry, phase, args, environ, dirs0, paired, pending>>

QcProcessSamplesReturn ==
    /\ entry = "qc" /\ pc = "process_samples" /\ todo = <<>>
    /\ Goto(StepAfter(QcMainSteps, "process_samples"))
    /\ UNCHANGED <<entry, phase, args, environ, files, dirs, dirs0, paired, todo,
                   pending, invocations, logs, warnings>>

QcFastqcStage == IF pc = "run_fastqc_raw" THEN "QC-raw" ELSE "QC-trimmed"
QcFastqcDataDir ==
    IF pc = "run_fastqc_raw" THEN args.input_dir ELSE TrimDataDir(args.output_dir)
QcFastqcOutputDir ==
    IF pc = "run_fastqc_raw" THEN RawQcDir(args.output_dir) ELSE TrimQcDir(args.output_dir)

\* run_fastqc up to its loop: makedirs and the glob.
QcRunFastqc ==
    /\ entry = "qc" /\ pc \in {"run_fastqc_raw", "run_fastqc_trim"} /\ phase = "call"
    /\ dirs' = makedirs(dirs, QcFastqcOutputDir)
    /\ pending' = GlobIn(files, dirs, QcFastqcDataDir, StarStar(FASTQ))
    /\ phase' = "loop"
    /\ UNCHANGED <<entry, pc, args, environ, files, dirs0, paired, todo,
                   invocations, logs, warnings, exit_status, exit_message>>

\* One turn of the loop of run_fastqc, in whatever order glob listed.
QcRunFastqcFile ==
    /\ entry = "qc" /\ pc \in {"run_fastqc_raw", "run_fastqc_trim"} /\ phase = "loop"
    /\ \E fastq_file \in pending, rc \in ReturnCodes :
         LET cmd == qc_fastqc_command(QcFastqcStage, fastq_file, QcFastqcOutputDir)
         IN  /\ RunSubprocess(cmd, rc)
             /\ IF CommandFailed("qc", rc)
                THEN /\ Exit("sys.exit(message)", "Command failed", FailureMessagePath(cmd.log))
                     /\ UNCHANGED pending
                ELSE /\ pending' = pending \ {fastq_file}
                     /\ UNCHANGED <<pc, exit_status, exit_message>>
    /\ UNCHANGED <<entry, phase, args, environ, files, dirs, dirs0, paired, todo,
                   warnings>>

QcRunFastqcReturn ==
    /\ entry = "qc" /\ pc \in {"run_fastqc_raw", "run_fastqc_trim"} /\ phase = "loop"
    /\ pending = {}
    /\ phase' = "call"
    /\ Goto(StepAfter(QcMainSteps, pc))
    /\ UNCHANGED <<entry, args, environ, files, dirs, dirs0, paired, todo,
                   pending, invocations, logs, warnings>>

----------------------------------------------------------------------------
(* assembly.py                                                             *)

AssemblyMainSteps ==
    <<"check_trimmed_data", "setup_directories", "pair_fastq_files", "run_assembly",
      "reformat_contigs", "run_quast_pre", "run_quast_filtered", "run_bbmap">>

AssemblyDir(base_dir) == join(base_dir, <<"Assembly">>)
SamplesDir(base_dir) == join(join(AssemblyDir(base_dir), <<"contigs">>), <<"samples">>)
AllContigsDir(base_dir) == join(join(AssemblyDir(base_dir), <<"contigs">>), <<"all_contigs">>)
FilteredContigsDir(base_dir) ==
    join(join(AssemblyDir(base_dir), <<"contigs">>), <<"filtered_contigs">>)
PreQuastDir(base_dir) == join(join(AssemblyDir(base_dir), <<"Quast">>), <<"pre_Quast">>)
FilteredQuastDir(base_dir) ==
    join(join(AssemblyDir(base_dir), <<"Quast">>), <<"filtered_Quast">>)
CoverageDir(base_dir) == join(AssemblyDir(base_dir), <<"Coverage">>)
AnnotationDir(output_dir) == join(output_dir, <<"Annotation">>)

\* trimmed_data_path = os.path.join(base_dir, "Trim_data"): the directory
\* assembly.main reads its reads from.
assembly_trimmed_data_path(a) == TrimDataDir(a.output_dir)

\* args.filtered_contigs_dir: the directory annotation.main reads its
\* contigs from.
annotation_filtered_contigs_dir(a) == a.filtered_contigs_dir

\* The layout with the annotation directory created along with it.
AssemblyLayout_WithAnnotation(base_dir) ==
    {SamplesDir(base_dir), AllContigsDir(base_dir), FilteredContigsDir(base_dir),
     PreQuastDir(base_dir), FilteredQuastDir(base_dir), CoverageDir(base_dir),
     AnnotationDir(base_dir)}

\* The list main hands to setup_directories.
AssemblyLayout(base_dir) ==
    {SamplesDir(base_dir), AllContigsDir(base_dir), FilteredContigsDir(base_dir),
     PreQuastDir(base_dir), FilteredQuastDir(base_dir), CoverageDir(base_dir)}

assembly_setup_directories(ds, directories) ==
    ds \union UNION {Prefixes(d) : d \in directories}

assembly_setup_raises(ds, directories) == \E d \in directories : makedirs_raises(ds, d)

\* A key already there keeps its files.
SetPair_KeepFirst(ps, sample, r1, r2) ==
    IF \E i \in 1..Len(ps) : ps[i].sample = sample
    THEN ps
    ELSE Append(ps, [sample |-> sample, R1 |-> r1, R2 |-> r2])

\* paired_samples[sample_name] = {...}: a key already there keeps its place.
SetPair(ps, sample, r1, r2) ==
    IF \E i \in 1..Len(ps) : ps[i].sample = sample
    THEN [i \in 1..Len(ps) |->
            IF ps[i].sample = sample THEN [sample |-> sample, R1 |-> r1, R2 |-> r2]
            ELSE ps[i]]
    ELSE Append(ps, [sample |-> sample, R1 |-> r1, R2 |-> r2])

\* The second mate looked up in the directory named after the sample.
assembly_r2_beside_SampleDir(r1_file, sample_name, ext) ==
    join(join(dirname(dirname(r1_file)), sample_name),
         Name(sample_name, <<"_R2_paired">>, ext))

\* os.path.join(os.path.dirname(r1_file), f"{sample_name}_R2_paired" + ext)
assembly_r2_beside(r1_file, sample_name, ext) ==
    join(dirname(r1_file), Name(sample_name, <<"_R2_paired">>, ext))

RECURSIVE assembly_pair_loop(_, _, _, _)
\* for r1_file in r1_files: the mapping and the warnings it ends with.
assembly_pair_loop(acc, r1_files, fs, ds) ==
    IF r1_files = <<>> THEN acc
    ELSE LET r1_file == Head(r1_files)
             base_name == basename(r1_file)
             sample_name == Replace(Replace(base_name, <<"_R1_paired">> \o FASTQ_GZ),
                                    <<"_R1_paired">> \o FASTQ)
             r2_file_gz == assembly_r2_beside(r1_file, sample_name, FASTQ_GZ)
             r2_file == assembly_r2_beside(r1_file, sample_name, FASTQ)
             acc2 == IF r2_file_gz \in fs \union ds
                     THEN [acc EXCEPT !.pairs = SetPair(@, sample_name, r1_file, r2_file_gz)]
                     ELSE IF r2_file \in fs \union ds
                     THEN [acc EXCEPT !.pairs = SetPair(@, sample_name, r1_file, r2_file)]
                     ELSE [acc EXCEPT !.warned = @ \union
                              {Warning("assembly", "No matching R2 file", r1_file)}]
         IN  CHOOSE paired_samples \in
                 {assembly_pair_loop(acc3, Tail(r1_files), fs, ds) : acc3 \in {acc2}} : TRUE

\* pair_fastq_files of assembly.py: the sorted recursive glob of the first
\* mates, each looked up with its second mate beside it.
assembly_pair_fastq_files(fs, ds, trimmed_data_path) ==
    CHOOSE paired_samples \in
        {assembly_pair_loop([pairs |-> <<>>, warned |-> {}], r1_files, fs, ds) :
            r1_files \in {sorted(GlobRec(fs, ds, trimmed_data_path,
                                         StarStar(<<"_R1_paired">> \o FASTQ)))}} : TRUE

DotTokens == {".1", ".fasta", ".fastq", ".gz"}

RECURSIVE SplitDot0(_)
\* name.split('.')[0]: the name up to its first dot.
SplitDot0(name) ==
    IF name = <<>> \/ Head(name) \in DotTokens THEN <<>>
    ELSE <<Head(name)>> \o SplitDot0(Tail(name))

assembly_spades_command(e, base_dir) ==
    LET sample_output_dir == join(SamplesDir(base_dir), e.sample)
    IN  Command("assembly", "Assemble", "spades", e.sample, {e.R1, e.R2},
                {join(sample_output_dir, <<"contigs", ".fasta">>)},
                sample_output_dir,
                join(sample_output_dir, <<"spades_output.log">>))

assembly_reformat_command(file, filtered_contigs_dir) ==
    LET sample_name == SplitDot0(basename(file))
    IN  Command("assembly", "Filter", "reformat", sample_name, {file},
                {join(filtered_contigs_dir, sample_name \o FASTA)},
                filtered_contigs_dir,
                join(Cwd, <<"reformat_output.log">>))

\* The command given only one of the contig files.
assembly_quast_command_OneFile(stage, contig_files, output_dir) ==
    Command("assembly", stage, "quast", <<>>, {CHOOSE f \in contig_files : TRUE}, {},
            output_dir, join(output_dir, <<"quast_output.log">>))

\* cmd = [quast_path] + contig_files + ['-o', output_dir]
assembly_quast_command(stage, contig_files, output_dir) ==
    Command("assembly", stage, "quast", <<>>, contig_files, {}, output_dir,
            join(output_dir, <<"quast_output.log">>))

assembly_bbmap_command(e, filtered_contigs_dir, coverage_dir) ==
    LET sample_coverage_dir == join(coverage_dir, e.sample)
    IN  Command("assembly", "Coverage", "bbmap", e.sample,
                {e.R1, e.R2, join(filtered_contigs_dir, e.sample \o FASTA)},
                {join(sample_coverage_dir, e.sample \o <<"_covstats.txt">>),
                 join(sample_coverage_dir, e.sample \o <<"_covhist.tsv">>),
                 join(sample_coverage_dir, e.sample \o <<"_basecov.txt">>),
                 join(sample_coverage_dir, e.sample \o <<"_mapped.bam">>)},
                sample_coverage_dir,
                join(sample_coverage_dir, <<"bbmap_output.log">>))

\* Read files an earlier trim stage may have left under Trim_data: a
\* complete pair in its own directory with the first mate also
\* uncompressed, a first mate with an uncompressed second mate, and a first
\* mate in another sample's directory.
TrimmedPaths ==
    {join(join(TrimDataDir(OutDir), <<"a">>), Name(<<"a">>, <<"_R1_paired">>, FASTQ_GZ)),
     join(join(TrimDataDir(OutDir), <<"a">>), Name(<<"a">>, <<"_R1_paired">>, FASTQ)),
     join(join(TrimDataDir(OutDir), <<"a">>), Name(<<"a">>, <<"_R2_paired">>, FASTQ_GZ)),
     join(join(TrimDataDir(OutDir), <<"b">>), Name(<<"b">>, <<"_R1_paired">>, FASTQ_GZ)),
     join(join(TrimDataDir(OutDir), <<"b">>), Name(<<"b">>, <<"_R2_paired">>, FASTQ)),
     join(join(TrimDataDir(OutDir), <<"b">>), Name(<<"a">>, <<"_R1_paired">>, FASTQ_GZ))}

\* The complete pair of a sample whose identifier holds a dot, 'a.1'.
DottedPaths ==
    {join(join(TrimDataDir(OutDir), <<"a", ".1">>),
          Name(<<"a", ".1">>, <<"_R1_paired">>, FASTQ_GZ)),
     join(join(TrimDataDir(OutDir), <<"a", ".1">>),
          Name(<<"a", ".1">>, <<"_R2_paired">>, FASTQ_GZ))}

\* The sets of read files a run may find: the dotted pair comes alone or
\* with files of sample a.
TrimmedSets ==
    {S \in SUBSET TrimmedPaths : Cardinality(S) <= MaxTrimFiles}
    \union {DottedPaths \union S :
               S \in {T \in SUBSET {p \in TrimmedPaths : dirname(p) = join(TrimDataDir(OutDir), <<"a">>)} :
                          Cardinality(T) + 2 <= MaxTrimFiles}}

\* Contig files an earlier run may have left.
LeftInContigs == {{}, {join(AllContigsDir(OutDir), <<"a">> \o FASTA)}}

InitAssembly ==
    \E trimmed \in TrimmedSets, left \in LeftInContigs, have_dir \in BOOLEAN :
        LET fs == trimmed \union left
        IN  InitRun("assembly.py", AssemblyMainSteps[1],
                    [NoArgs EXCEPT !.output_dir = OutDir],
                    fs,
                    {OutDir, Cwd} \union DirsOf(fs) \union
                      (IF have_dir THEN {TrimDataDir(OutDir)} ELSE {}))

----------------------------------------------------------------------------
(* The assembly stage: assembly.main.                                      *)

\* if not os.path.isdir(trimmed_data_path): sys.exit(...)
AssemblyCheckTrimmedData ==
    /\ entry = "assembly.py" /\ pc = "check_trimmed_data"
    /\ IF assembly_trimmed_data_path(args) \in dirs
       THEN Goto(StepAfter(AssemblyMainSteps, "check_trimmed_data"))
       ELSE Exit("sys.exit(message)", "Trimmed data directory does not exist",
                 assembly_trimmed_data_path(args))
    /\ UNCHANGED <<entry, phase, args, environ, files, dirs, dirs0, paired, todo,
                   pending, invocations, logs, warnings>>

AssemblySetupDirectories ==
    /\ entry = "assembly.py" /\ pc = "setup_directories"
    /\ IF assembly_setup_raises(dirs, AssemblyLayout(args.output_dir))
       THEN /\ Exit("uncaught exception", "FileExistsError", NoFile)
            /\ UNCHANGED dirs
       ELSE /\ dirs' = assembly_setup_directories(dirs, AssemblyLayout(args.output_dir))
            /\ Goto(StepAfter(AssemblyMainSteps, "setup_directories"))
    /\ UNCHANGED <<entry, phase, args, environ, files, dirs0, paired, todo,
                   pending, invocations, logs, warnings>>

\* paired_samples = pair_fastq_files(...); if not paired_samples: sys.exit(...)
AssemblyPairFastqFiles ==
    /\ entry = "assembly.py" /\ pc = "pair_fastq_files"
    /\ \E got \in {assembly_pair_fastq_files(files, dirs, assembly_trimmed_data_path(args))} :
           /\ paired' = got.pairs
           /\ warnings' = warnings \union got.warned
           /\ IF got.pairs = <<>>
              THEN Exit("sys.exit(message)", "No paired FASTQ files found", NoFile)
              ELSE Goto(StepAfter(AssemblyMainSteps, "pair_fastq_files"))
    /\ UNCHANGED <<entry, phase, args, environ, files, dirs, dirs0, todo,
                   pending, invocations, logs>>

\* run_assembly up to its loop.
AssemblyRunAssembly ==
    /\ entry = "assembly.py" /\ pc = "run_assembly" /\ phase = "call"
    /\ dirs' = makedirs(dirs, AllContigsDir(args.output_dir))
    /\ todo' = paired
    /\ phase' = "loop"
    /\ UNCHANGED <<entry, pc, args, environ, files, dirs0, paired,
                   pending, invocations, logs, warnings, exit_status, exit_message>>

\* The file moved instead of copied.
shutil_copy_Move(fs, src, dst) == (fs \ {src}) \union {dst}

\* shutil.copy(contigs_src, contigs_dest)
shutil_copy(fs, src, dst) == fs \union {dst}

\* One turn of the loop of run_assembly: the assembler, then the copy of
\* contigs.fasta if it is there.
AssemblyRunAssemblySample ==
    /\ entry = "assembly.py" /\ pc = "run_assembly" /\ phase = "loop" /\ todo # <<>>
    /\ LET e == Head(todo)
           cmd == assembly_spades_command(e, args.output_dir)
           contigs_src == join(cmd.outdir, <<"contigs", ".fasta">>)
           contigs_dest == join(AllContigsDir(args.output_dir), e.sample \o FASTA)
       IN  /\ dirs' = makedirs(dirs, cmd.outdir)
           /\ \E rc \in ReturnCodes, wrote \in BOOLEAN :
                LET after == IF wrote THEN files \union {contigs_src} ELSE files
                IN  /\ RunSubprocess(cmd, rc)
                    /\ IF CommandFailed("assembly", rc)
                       THEN /\ Exit("sys.exit(message)", "Command failed", FailureMessagePath(cmd.log))
                            /\ files' = after
                            /\ UNCHANGED <<todo, warnings>>
                       ELSE /\ IF contigs_src \in after \union dirs'
                               THEN /\ files' = shutil_copy(after, contigs_src, contigs_dest)
                                    /\ UNCHANGED warnings
                               ELSE /\ files' = after
                                    /\ warnings' = warnings \union
                                         {Warning("assembly", "Contigs file not found for sample",
                                                  e.sample)}
                            /\ todo' = Tail(todo)
                            /\ UNCHANGED <<pc, exit_status, exit_message>>
    /\ UNCHANGED <<entry, phase, args, environ, dirs0, paired, pending>>

AssemblyRunAssemblyReturn ==
    /\ entry = "assembly.py" /\ pc = "run_assembly" /\ phase = "loop" /\ todo = <<>>
    /\ phase' = "call"
    /\ Goto(StepAfter(AssemblyMainSteps, "run_assembly"))
    /\ UNCHANGED <<entry, args, environ, files, dirs, dirs0, paired, todo,
                   pending, invocations, logs, warnings>>

\* reformat_contigs up to its loop: the glob, the early return, makedirs.
AssemblyReformatContigs ==
    /\ entry = "assembly.py" /\ pc = "reformat_contigs" /\ phase = "call"
    /\ LET contig_files == GlobIn(files, dirs, AllContigsDir(args.output_dir),
                                  Star(FASTA))
       IN  IF contig_files = {}
           THEN /\ warnings' = warnings \union
                      {Warning("assembly", "No contig files found", AllContigsDir(args.output_dir))}
                /\ Goto(StepAfter(AssemblyMainSteps, "reformat_contigs"))
                /\ UNCHANGED <<phase, dirs, pending>>
           ELSE /\ dirs' = makedirs(dirs, FilteredContigsDir(args.output_dir))
                /\ pending' = contig_files
                /\ phase' = "loop"
                /\ UNCHANGED <<pc, warnings, exit_status, exit_message>>
    /\ UNCHANGED <<entry, args, environ, files, dirs0, paired, todo, invocations, logs>>

AssemblyReformatFile ==
    /\ entry = "assembly.py" /\ pc = "reformat_contigs" /\ phase = "loop"
    /\ \E file \in pending, rc \in ReturnCodes :
         LET cmd == assembly_reformat_command(file, FilteredContigsDir(args.output_dir))
         IN  /\ RunSubprocess(cmd, rc)
             /\ IF CommandFailed("assembly", rc)
                THEN /\ Exit("sys.exit(message)", "Command failed", FailureMessagePath(cmd.log))
                     /\ UNCHANGED <<pending, files>>
                ELSE /\ pending' = pending \ {file}
                     /\ files' = files \union cmd.outputs
                     /\ UNCHANGED <<pc, exit_status, exit_message>>
    /\ UNCHANGED <<entry, phase, args, environ, dirs, dirs0, paired, todo, warnings>>

AssemblyReformatReturn ==
    /\ entry = "assembly.py" /\ pc = "reformat_contigs" /\ phase = "loop" /\ pending = {}
    /\ phase' = "call"
    /\ Goto(StepAfter(AssemblyMainSteps, "reformat_contigs"))
    /\ UNCHANGED <<entry, args, environ, files, dirs, dirs0, paired, todo,
                   pending, invocations, logs, warnings>>

QuastStage == IF pc = "run_quast_pre" THEN "QC-assess-all" ELSE "QC-assess-filtered"
QuastContigsDir ==
    IF pc = "run_quast_pre" THEN AllContigsDir(args.output_dir)
    ELSE FilteredContigsDir(args.output_dir)
QuastOutputDir ==
    IF pc = "run_quast_pre" THEN PreQuastDir(args.output_dir)
    ELSE FilteredQuastDir(args.output_dir)

\* The test left out: the command is run whatever the glob found.
run_quast_no_files_Never(contig_files) == FALSE

\* if not contig_files
run_quast_no_files(contig_files) == contig_files = {}

\* run_quast: one command over every contig file of the directory.
AssemblyRunQuast ==
    /\ entry = "assembly.py" /\ pc \in {"run_quast_pre", "run_quast_filtered"}
    /\ LET contig_files == GlobIn(files, dirs, QuastContigsDir, Star(FASTA))
           cmd == assembly_quast_command(QuastStage, contig_files, QuastOutputDir)
       IN  IF run_quast_no_files(contig_files)
           THEN /\ warnings' = warnings \union
                      {Warning("assembly", "No contig files found", QuastContigsDir)}
                /\ Goto(StepAfter(AssemblyMainSteps, pc))
                /\ UNCHANGED <<dirs, invocations, logs>>
           ELSE /\ dirs' = makedirs(dirs, QuastOutputDir)
                /\ UNCHANGED warnings
                /\ \E rc \in ReturnCodes :
                     /\ RunSubprocess(cmd, rc)
                     /\ IF CommandFailed("assembly", rc)
                        THEN Exit("sys.exit(message)", "Command failed", FailureMessagePath(cmd.log))
                        ELSE Goto(StepAfter(AssemblyMainSteps, pc))
    /\ UNCHANGED <<entry, phase, args, environ, files, dirs0, paired, todo, pending>>

\* run_bbmap up to its loop.
AssemblyRunBbmap ==
    /\ entry = "assembly.py" /\ pc = "run_bbmap" /\ phase = "call"
    /\ todo' = paired
    /\ phase' = "loop"
    /\ UNCHANGED <<entry, pc, args, environ, files, dirs, dirs0, paired,
                   pending, invocations, logs, warnings, exit_status, exit_message>>

\* The test left out: every sample is mapped.
assembly_ref_missing_Never(fs, ds, ref_file) == FALSE

\* if not os.path.exists(ref_file)
assembly_ref_missing(fs, ds, ref_file) == ref_file \notin fs \union ds

\* One turn of the loop of run_bbmap.
AssemblyRunBbmapSample ==
    /\ entry = "assembly.py" /\ pc = "run_bbmap" /\ phase = "loop" /\ todo # <<>>
    /\ LET e == Head(todo)
           ref_file == join(FilteredContigsDir(args.output_dir), e.sample \o FASTA)
           cmd == assembly_bbmap_command(e, FilteredContigsDir(args.output_dir),
                                         CoverageDir(args.output_dir))
       IN  IF assembly_ref_missing(files, dirs, ref_file)
           THEN /\ warnings' = warnings \union
                      {Warning("assembly", "Reference contigs not found for sample", e.sample)}
                /\ todo' = Tail(todo)
                /\ UNCHANGED <<pc, exit_status, exit_message, dirs, invocations, logs>>
           ELSE /\ dirs' = makedirs(dirs, cmd.outdir)
                /\ UNCHANGED warnings
                /\ \E rc \in ReturnCodes :
                     /\ RunSubprocess(cmd, rc)
                     /\ IF CommandFailed("assembly", rc)
                        THEN /\ Exit("sys.exit(message)", "Command failed", FailureMessagePath(cmd.log))
                             /\ UNCHANGED todo
                        ELSE /\ todo' = Tail(todo)
                             /\ UNCHANGED <<pc, exit_status, exit_message>>
    /\ UNCHANGED <<entry, phase, args, environ, files, dirs0, paired, pending>>

AssemblyRunBbmapReturn ==
    /\ entry = "assembly.py" /\ pc = "run_bbmap" /\ phase = "loop" /\ todo = <<>>
    /\ phase' = "call"
    /\ Goto(StepAfter(AssemblyMainSteps, "run_bbmap"))
    /\ UNCHANGED <<entry, args, environ, files, dirs, dirs0, paired, todo,
                   pending, invocations, logs, warnings>>

----------------------------------------------------------------------------
(* annotation.py                                                           *)

AnnotationMainSteps == <<"check_filtered_contigs", "annotate_contigs">>

\* The default HolmGenome.py gives config.get('filtered_contigs_dir', ...).
PlaceholderContigsDir == << <<"path">>, <<"to">>, <<"filtered_contigs">> >>

annotation_prokka_command(fasta_file, annotation_output_dir) ==
    LET sample_name == SplitDot0(basename(fasta_file))
    IN  Command("annotation", "Annotate", "prokka", sample_name, {fasta_file}, {},
                join(annotation_output_dir, sample_name),
                join(Cwd, <<"prokka_output.log">>))

\* Contig files the filtered-contigs directory may hold: two samples, and
\* a file whose name has a second dot, 'a.1.fasta'.
FilteredNames == {<<"a">> \o FASTA, <<"b">> \o FASTA, <<"a", ".1">> \o FASTA}

InitAnnotation ==
    \E names \in SUBSET FilteredNames, have_dir \in BOOLEAN,
       given \in {FilteredContigsDir(OutDir), PlaceholderContigsDir} :
        LET fs == {join(FilteredContigsDir(OutDir), n) : n \in names}
        IN  InitRun("annotation.py", AnnotationMainSteps[1],
                    [NoArgs EXCEPT !.output_dir = OutDir, !.filtered_contigs_dir = given],
                    fs,
                    {OutDir, Cwd} \union DirsOf(fs) \union
                      (IF have_dir THEN Prefixes(FilteredContigsDir(OutDir)) ELSE {}))

\* main: the isdir test and the first glob with its early return.
AnnotationCheckFilteredContigs ==
    /\ entry = "annotation.py" /\ pc = "check_filtered_contigs"
    /\ LET fasta_files == GlobIn(files, dirs, annotation_filtered_contigs_dir(args),
                                 Star(FASTA))
       IN  IF annotation_filtered_contigs_dir(args) \notin dirs
           THEN /\ Exit("sys.exit(message)", "Filtered contigs directory does not exist",
                        annotation_filtered_contigs_dir(args))
                /\ UNCHANGED warnings
           ELSE IF fasta_files = {}
           THEN /\ warnings' = warnings \union
                      {Warning("annotation", "No FASTA files found. Nothing to annotate",
                               annotation_filtered_contigs_dir(args))}
                /\ Goto("return")
           ELSE /\ Goto(StepAfter(AnnotationMainSteps, "check_filtered_contigs"))
                /\ UNCHANGED warnings
    /\ UNCHANGED <<entry, phase, args, environ, files, dirs, dirs0, paired, todo,
                   pending, invocations, logs>>

\* annotate_contigs up to its loop.
AnnotationAnnotateContigs ==
    /\ entry = "annotation.py" /\ pc = "annotate_contigs" /\ phase = "call"
    /\ dirs' = makedirs(dirs, AnnotationDir(args.output_dir))
    /\ LET fasta_files == GlobIn(files, dirs, annotation_filtered_contigs_dir(args),
                                 Star(FASTA))
       IN  IF fasta_files = {}
           THEN /\ warnings' = warnings \union
                      {Warning("annotation", "No FASTA files found for annotation",
                               annotation_filtered_contigs_dir(args))}
                /\ Goto(StepAfter(AnnotationMainSteps, "annotate_contigs"))
                /\ UNCHANGED <<phase, pending>>
           ELSE /\ pending' = fasta_files
                /\ phase' = "loop"
                /\ UNCHANGED <<pc, warnings, exit_status, exit_message>>
    /\ UNCHANGED <<entry, args, environ, files, dirs0, paired, todo, invocations, logs>>

\* One turn of the loop of annotate_contigs: makedirs, then run_prokka.
AnnotationAnnotateFile ==
    /\ entry = "annotation.py" /\ pc = "annotate_contigs" /\ phase = "loop"
    /\ \E fasta_file \in pending, rc \in ReturnCodes :
         LET cmd == annotation_prokka_command(fasta_file, AnnotationDir(args.output_dir))
         IN  /\ dirs' = makedirs(dirs, cmd.outdir)
             /\ RunSubprocess(cmd, rc)
             /\ IF CommandFailed("annotation", rc)
                THEN /\ Exit("sys.exit(message)", "Command failed", FailureMessagePath(cmd.log))
                     /\ UNCHANGED pending
                ELSE /\ pending' = pending \ {fasta_file}
                     /\ UNCHANGED <<pc, exit_status, exit_message>>
    /\ UNCHANGED <<entry, phase, args, environ, files, dirs0, paired, todo, warnings>>

AnnotationAnnotateReturn ==
    /\ entry = "annotation.py" /\ pc = "annotate_contigs" /\ phase = "loop"
    /\ pending = {}
    /\ phase' = "call"
    /\ Goto(StepAfter(AnnotationMainSteps, "annotate_contigs"))
    /\ UNCHANGED <<entry, args, environ, files, dirs, dirs0, paired, todo,
                   pending, invocations, logs, warnings>>

----------------------------------------------------------------------------
(* Argument parsers, and HolmGenome.py: the controller.                    *)

\* The option strings qc.main adds to its parser, in order.
QcParserOptions ==
    <<"--input_dir", "--output_dir", "--trimmomatic_path", "--adapters_path",
      "--illuminaclip", "--slidingwindow", "--leading", "--trailing", "--crop",
      "--headcrop", "--minlen", "--suffix1", "--suffix1", "--suffix2",
      "--bbduk_path", "--ktrim", "--k", "--mink", "--hdist", "--tpe", "--tbo",
      "--qtrim", "--trimq", "--fastqc_path">>

AssemblyParserOptions ==
    <<"--output_dir", "--spades_path", "--quast_path", "--bbmap_path", "--minlength",
      "--reformat_path">>

AnnotationParserOptions == <<"--filtered_contigs_dir", "--output_dir">>

\* add_argument raises ArgumentError for an option string added twice;
\* parse_args ends the process through parser.error for a required option
\* that is missing or an argument it does not know.
ParseOutcome(options, required, given) ==
    IF \E i, j \in 1..Len(options) : i < j /\ options[i] = options[j]
    THEN "ArgumentError"
    ELSE IF \E r \in required : r \notin given THEN "parser.error"
    ELSE IF \E g \in given : \A i \in 1..Len(options) : options[i] # g THEN "parser.error"
    ELSE "parsed"

\* The argument lists the controller builds.
ctl_qc_args(config) ==
    [given |-> {"--input_dir", "--output_dir", "--trimmomatic_path", "--adapters_path",
                "--suffix1", "--suffix2"},
     input_dir |-> config.input_dir, output_dir |-> config.output_dir,
     suffix1 |-> <<"_R1_001">>, suffix2 |-> <<"_R2_001">>]

ctl_assembly_args(config) ==
    [given |-> {"--output_dir", "--trimmed_data_path", "--spades_path", "--minlength"},
     output_dir |-> config.output_dir,
     trimmed_data_path |-> TrimDataDir(config.output_dir)]

ctl_annotation_args(config) ==
    [given |-> {"--filtered_contigs_dir", "--annotation_output_dir"},
     filtered_contigs_dir |->
        IF config.filtered_contigs_dir = NoFile THEN PlaceholderContigsDir
        ELSE config.filtered_contigs_dir]

CtlMainSteps == <<"check_required_tools", "required_params", "qc_main">>

\* The configuration after the file, the command line and the prompts:
\* a directory not given is NoFile.
Configs ==
    {[NoArgs EXCEPT !.input_dir = i, !.output_dir = o, !.filtered_contigs_dir = f] :
        i \in {NoFile, InDir}, o \in {NoFile, OutDir},
        f \in {NoFile, FilteredContigsDir(OutDir), join(OutDir, <<"contigs">>)}}

InitController ==
    \E config \in Configs, raw \in {{}, {Name(<<"a">>, <<"_R1_001">>, FASTQ_GZ)}},
       have_dir \in BOOLEAN :
        LET fs == {join(InDir, n) : n \in raw}
        IN  InitRun("HolmGenome", CtlMainSteps[1], config, fs,
                    {InDir, Cwd} \union
                      (IF have_dir THEN Prefixes(FilteredContigsDir(OutDir)) ELSE {}))

InitQcScript ==
    \E raw \in {{}, {Name(<<"a">>, <<"_R1_001">>, FASTQ_GZ)}} :
        LET fs == {join(InDir, n) : n \in raw}
        IN  InitRun("qc.py", "parser",
                    [NoArgs EXCEPT !.input_dir = InDir, !.output_dir = OutDir,
                                   !.suffix1 = <<"_R1_001">>, !.suffix2 = <<"_R2_001">>],
                    fs, {InDir, Cwd})

\* check_required_tools: every tool answers, or check_tool ends the run.
CtlCheckRequiredTools ==
    /\ entry = "HolmGenome" /\ pc = "check_required_tools"
    /\ \E found \in BOOLEAN :
         IF found THEN Goto(StepAfter(CtlMainSteps, "check_required_tools"))
         ELSE Exit("sys.exit(message)", "tool is not installed", NoFile)
    /\ UNCHANGED <<entry, phase, args, environ, files, dirs, dirs0, paired, todo,
                   pending, invocations, logs, warnings>>

\* missing_params: sys.exit before the try block.
CtlRequiredParams ==
    /\ entry = "HolmGenome" /\ pc = "required_params"
    /\ IF args.input_dir = NoFile \/ args.output_dir = NoFile
       THEN Exit("sys.exit(message)", "Missing required parameters", NoFile)
       ELSE Goto(StepAfter(CtlMainSteps, "required_params"))
    /\ UNCHANGED <<entry, phase, args, environ, files, dirs, dirs0, paired, todo,
                   pending, invocations, logs, warnings>>

\* qc_main(qc_args) inside the try block: the parser of qc.main raises
\* while it is built, and the handler of the controller takes over.
CtlQcMain ==
    /\ entry = "HolmGenome" /\ pc = "qc_main"
    /\ ParseOutcome(QcParserOptions, {"--input_dir", "--output_dir", "--trimmomatic_path",
                                      "--adapters_path"},
                    ctl_qc_args(args).given) = "ArgumentError"
    /\ pc' = "except"
    /\ UNCHANGED <<entry, phase, args, environ, files, dirs, dirs0, paired, todo,
                   pending, invocations, logs, warnings, exit_status, exit_message>>

\* except Exception as e: logging.exception(...); sys.exit(f"Error: {e}")
CtlExcept ==
    /\ entry = "HolmGenome" /\ pc = "except"
    /\ Exit("sys.exit(message)", "An exception occurred during pipeline execution", NoFile)
    /\ UNCHANGED <<entry, phase, args, environ, files, dirs, dirs0, paired, todo,
                   pending, invocations, logs, warnings>>

\* qc.main started as a script: the same ArgumentError, caught by nobody.
QcMainParser ==
    /\ entry = "qc.py" /\ pc = "parser"
    /\ ParseOutcome(QcParserOptions, {"--input_dir", "--output_dir", "--trimmomatic_path",
                                      "--adapters_path"},
                    ctl_qc_args(args).given) = "ArgumentError"
    /\ Exit("uncaught exception", "ArgumentError", NoFile)
    /\ UNCHANGED <<entry, phase, args, environ, files, dirs, dirs0, paired, todo,
                   pending, invocations, logs, warnings>>

----------------------------------------------------------------------------
(* pair_fastq_files of qc.py called on its own, with any suffixes.         *)

\* The suffixes the function may be given: the two the controller passes,
\* an empty first suffix, and the same suffix twice.
SuffixPairs ==
    {<< <<"_R1_001">>, <<"_R2_001">> >>,
     << <<>>, <<"_R2_001">> >>,
     << <<"_R1_001">>, <<"_R1_001">> >>}

InitPairCall ==
    \E raw \in RawSets, sfx \in SuffixPairs :
        LET fs == {join(InDir, n) : n \in raw}
        IN  InitRun("pair_fastq_files", "call",
                    [NoArgs EXCEPT !.input_dir = InDir, !.suffix1 = sfx[1], !.suffix2 = sfx[2]],
                    fs, {InDir, Cwd})

\* The call and its return: the mapping, and nothing logged above INFO.
QcPairFastqFilesCall ==
    /\ entry = "pair_fastq_files" /\ pc = "call"
    /\ \E l1 \in QcListings(files, dirs, args.input_dir, args.suffix1, args.suffix2, FASTQ),
          l2 \in QcListings(files, dirs, args.input_dir, args.suffix1, args.suffix2, FASTQ_GZ) :
            paired' = qc_pair_fastq_files(l1, l2, args.suffix1, args.suffix2)
    /\ pc' = "returned"
    /\ UNCHANGED <<entry, phase, args, environ, files, dirs, dirs0, todo, pending,
                   invocations, logs, warnings, exit_status, exit_message>>

----------------------------------------------------------------------------
(* QC.py: the variant of the trim stage that pairs the sorted file names  *)
(* of each directory at adjacent positions.                                *)

\* The body of main of QC.py after the arguments are parsed.
QC_MainSteps ==
    <<"setup_directories", "walk", "run_fastqc_raw", "run_multiqc_raw",
      "run_fastqc_trim", "run_multiqc_trim">>

\* setup_directories of QC.py: three os.makedirs(dir, exist_ok=True).
QC_setup_directories(ds, base_dir) ==
    makedirs(makedirs(makedirs(ds, TrimDataDir(base_dir)), RawQcDir(base_dir)),
             TrimQcDir(base_dir))

\* files[i].split('.', 1)[0]
QC_base_name(file) == SplitDot0(basename(file))

\* The output files main names for one pair, all directly in output_dir.
QC_trim_outputs(a, base_name1, base_name2) ==
    IF a.bbduk
    THEN {join(a.output_dir, base_name1 \o FASTQ_GZ),
          join(a.output_dir, base_name2 \o FASTQ_GZ)}
    ELSE {join(a.output_dir, base_name1 \o <<"_paired">> \o FASTQ_GZ),
          join(a.output_dir, base_name1 \o <<"_unpaired">> \o FASTQ_GZ),
          join(a.output_dir, base_name2 \o <<"_paired">> \o FASTQ_GZ),
          join(a.output_dir, base_name2 \o <<"_unpaired">> \o FASTQ_GZ)}

\* run_trimmomatic or run_bbduk on the pair input_file1, input_file2.
QC_trim_command(input_file1, input_file2, a) ==
    Command("QC", "Trim", IF a.bbduk THEN "bbduk" ELSE "trimmomatic",
            QC_base_name(input_file1), {input_file1, input_file2},
            QC_trim_outputs(a, QC_base_name(input_file1), QC_base_name(input_file2)),
            a.output_dir,
            join(Cwd, IF a.bbduk THEN <<"bbduk_output.log">>
                                 ELSE <<"trimmomatic_output.log">>))

\* The pair main has formed and handed to the trimmer.
QC_pair(input_file1, input_file2) ==
    [sample |-> QC_base_name(input_file1), R1 |-> input_file1, R2 |-> input_file2]

\* files[i+1]: the file after files[i], or IndexError when files[i] is the
\* last one.
QC_second_file(fs) == IF Len(fs) >= 2 THEN <<fs[2]>> ELSE <<>>

\* range(0, len(files), 2): what is left after the turn at the head of fs.
QC_walk_rest(fs) == IF Len(fs) >= 2 THEN Tail(Tail(fs)) ELSE <<>>

\* The raw read files QC.py may find: those of the stage functions.
InitQCVariant ==
    \E raw \in RawSets, bbduk \in BOOLEAN :
        LET fs == {join(InDir, n) : n \in raw}
        IN  /\ InitRun("QC.py", QC_MainSteps[1],
                    [NoArgs EXCEPT !.input_dir = InDir, !.output_dir = OutDir,
                                   !.suffix1 = <<"_R1_001">> \o FASTQ_GZ,
                                   !.suffix2 = <<"_R2_001">> \o FASTQ_GZ,
                                   !.bbduk = bbduk],
                    fs, {InDir, Cwd})
            /\ environ = {"PATH"}
            /\ logs = <<>>

QC_SetupDirectories ==
    /\ entry = "QC.py" /\ pc = "setup_directories"
    /\ dirs' = QC_setup_directories(dirs, args.output_dir)
    /\ Goto(StepAfter(QC_MainSteps, "setup_directories"))
    /\ UNCHANGED <<entry, phase, args, environ, files, dirs0, paired, todo,
                   pending, invocations, logs, warnings>>

\* for root, dirs, files in os.walk(args.input_dir): files.sort()
QC_Walk ==
    /\ entry = "QC.py" /\ pc = "walk" /\ phase = "call"
    /\ todo' = sorted({p \in files : dirname(p) = args.input_dir})
    /\ phase' = "loop"
    /\ UNCHANGED <<entry, pc, args, environ, files, dirs, dirs0, paired,
                   pending, invocations, logs, warnings, exit_status, exit_message>>

\* One turn of for i in range(0, len(files), 2): the two endswith tests and
\* the trimmer, run by subprocess.run(cmd, shell=True) and not through a
\* Stage Runner; nobody reads its exit status. The pairs handed to the
\* trimmer are kept in paired.
QC_WalkPair ==
    /\ entry = "QC.py" /\ pc = "walk" /\ phase = "loop" /\ todo # <<>>
    /\ IF ~EndsWith(basename(Head(todo)), args.suffix1)
       THEN /\ todo' = QC_walk_rest(todo)
            /\ UNCHANGED <<pc, exit_status, exit_message, files, paired, logs>>
       ELSE IF QC_second_file(todo) = <<>>
       THEN /\ Exit("uncaught exception", "IndexError", NoFile)
            /\ UNCHANGED <<todo, files, paired, logs>>
       ELSE IF ~EndsWith(basename(QC_second_file(todo)[1]), args.suffix2)
       THEN /\ todo' = QC_walk_rest(todo)
            /\ UNCHANGED <<pc, exit_status, exit_message, files, paired, logs>>
       ELSE \E rc \in ReturnCodes :
              LET cmd == QC_trim_command(Head(todo), QC_second_file(todo)[1], args)
              IN  /\ paired' = Append(paired, QC_pair(Head(todo), QC_second_file(todo)[1]))
                  /\ logs' = Written(logs, cmd, rc)
                  /\ files' = IF rc = 0 THEN files \union cmd.outputs ELSE files
                  /\ todo' = QC_walk_rest(todo)
                  /\ UNCHANGED <<pc, exit_status, exit_message>>
    /\ UNCHANGED <<entry, phase, args, environ, dirs, dirs0, pending, invocations, warnings>>

QC_WalkReturn ==
    /\ entry = "QC.py" /\ pc = "walk" /\ phase = "loop" /\ todo = <<>>
    /\ phase' = "call"
    /\ Goto(StepAfter(QC_MainSteps, "walk"))
    /\ UNCHANGED <<entry, args, environ, files, dirs, dirs0, paired, todo,
                   pending, invocations, logs, warnings>>

QC_FastqcDataDir ==
    IF pc = "run_fastqc_raw" THEN args.input_dir ELSE TrimDataDir(args.output_dir)
QC_ReportDir ==
    IF pc \in {"run_fastqc_raw", "run_multiqc_raw"}
    THEN RawQcDir(args.output_dir) ELSE TrimQcDir(args.output_dir)

\* run_fastqc of QC.py up to its loop: makedirs and the glob of '*.fastq'.
QC_RunFastqc ==
    /\ entry = "QC.py" /\ pc \in {"run_fastqc_raw", "run_fastqc_trim"} /\ phase = "call"
    /\ dirs' = makedirs(dirs, QC_ReportDir)
    /\ pending' = GlobIn(files, dirs, QC_FastqcDataDir, Star(FASTQ))
    /\ phase' = "loop"
    /\ UNCHANGED <<entry, pc, args, environ, files, dirs0, paired, todo,
                   invocations, logs, warnings, exit_status, exit_message>>

\* One turn of the loop of run_fastqc: subprocess.run(cmd, shell=True),
\* whose exit status nobody reads and whose output goes to no log.
QC_RunFastqcFile ==
    /\ entry = "QC.py" /\ pc \in {"run_fastqc_raw", "run_fastqc_trim"} /\ phase = "loop"
    /\ \E fastq_file \in pending : pending' = pending \ {fastq_file}
    /\ UNCHANGED <<entry, pc, phase, args, environ, files, dirs, dirs0, paired, todo,
                   invocations, logs, warnings, exit_status, exit_message>>

QC_RunFastqcReturn ==
    /\ entry = "QC.py" /\ pc \in {"run_fastqc_raw", "run_fastqc_trim"} /\ phase = "loop"
    /\ pending = {}
    /\ phase' = "call"
    /\ Goto(StepAfter(QC_MainSteps, pc))
    /\ UNCHANGED <<entry, args, environ, files, dirs, dirs0, paired, todo,
                   pending, invocations, logs, warnings>>

\* run_multiqc of QC.py: makedirs and one command, its exit status unread.
QC_RunMultiqc ==
    /\ entry = "QC.py" /\ pc \in {"run_multiqc_raw", "run_multiqc_trim"}
    /\ dirs' = makedirs(dirs, QC_ReportDir)
    /\ Goto(StepAfter(QC_MainSteps, pc))
    /\ UNCHANGED <<entry, phase, args, environ, files, dirs0, paired, todo,
                   pending, invocations, logs, warnings>>

----------------------------------------------------------------------------
Init ==
    InitQc \/ InitQcScript \/ InitAssembly \/ InitAnnotation \/ InitController
    \/ InitPairCall \/ InitQCVariant

Next ==
    \/ QcSetupDirectories
    \/ QcPairFastqFiles
    \/ QcProcessSample
    \/ QcProcessSamplesReturn
    \/ QcRunFastqc
    \/ QcRunFastqcFile
    \/ QcRunFastqcReturn
    \/ AssemblyCheckTrimmedData
    \/ AssemblySetupDirectories
    \/ AssemblyPairFastqFiles
    \/ AssemblyRunAssembly
    \/ AssemblyRunAssemblySample
    \/ AssemblyRunAssemblyReturn
    \/ AssemblyReformatContigs
    \/ AssemblyReformatFile
    \/ AssemblyReformatReturn
    \/ AssemblyRunQuast
    \/ AssemblyRunBbmap
    \/ AssemblyRunBbmapSample
    \/ AssemblyRunBbmapReturn
    \/ AnnotationCheckFilteredContigs
    \/ AnnotationAnnotateContigs
    \/ AnnotationAnnotateFile
    \/ AnnotationAnnotateReturn
    \/ CtlCheckRequiredTools
    \/ CtlRequiredParams
    \/ CtlQcMain
    \/ CtlExcept
    \/ QcMainParser
    \/ QcPairFastqFilesCall
    \/ QC_SetupDirectories
    \/ QC_Walk
    \/ QC_WalkPair
    \/ QC_WalkReturn
    \/ QC_RunFastqc
    \/ QC_RunFastqcFile
    \/ QC_RunFastqcReturn
    \/ QC_RunMultiqc

Spec == Init /\ [][Next]_vars

\* The runs whose ending is checked: those of Init that start with the
\* plain environment and empty logs, neither of which any step tests.
FairInit == Init /\ environ = {"PATH"} /\ logs = <<>>

\* The program is sequential and every call it makes returns: a step that
\* can be taken is taken.
FairSpec == FairInit /\ [][Next]_vars /\ WF_vars(Next)

----------------------------------------------------------------------------
(* Properties.                                                             *)

Runs == 1..Len(invocations)
Failed(i) == invocations[i].rc # 0
StageRuns(stage) == {i \in Runs : invocations[i].stage = stage}

\* The order of stages the specification gives.
SpecifiedStageOrder ==
    <<"QC-raw", "Trim", "QC-trimmed", "Assemble", "Filter", "QC-assess-all",
      "QC-assess-filtered", "Coverage", "Annotate">>

\* The order of stages the stage modules run them in.
ObservedStageOrder ==
    <<"Trim", "QC-raw", "QC-trimmed", "Assemble", "Filter", "QC-assess-all",
      "QC-assess-filtered", "Coverage", "Annotate">>

StageRank(order, stage) == CHOOSE i \in 1..Len(order) : order[i] = stage

InStageOrder(order) ==
    \A i, j \in Runs :
        i < j => StageRank(order, invocations[i].stage) <= StageRank(order, invocations[j].stage)

C2_FailFast ==
    \A i \in Runs : Failed(i) => i = Len(invocations) /\ pc = "aborted"

\* The trim invocation of one sample failed while another sample with both
\* mates was still waiting for its own.
C2_Witness ==
    /\ pc = "aborted"
    /\ invocations # <<>>
    /\ Failed(Len(invocations))
    /\ invocations[Len(invocations)].stage = "Trim"
    /\ Len(todo) >= 2
    /\ qc_has_both(todo[2])

\* C3: the exit status is 0 only for a run that reached Done, and every
\* run that ended in Aborted has a non-zero exit status.
C3_ExitStatus ==
    /\ exit_status = <<0>> => pc = "done"
    /\ pc = "aborted" => exit_status # <<>> /\ exit_status[1] # 0
    /\ pc = "done" => exit_status = <<0>>

\* The controller caught an exception raised inside a stage and ended the
\* process with status 1.
C3_Witness ==
    /\ entry = "HolmGenome"
    /\ pc = "aborted"
    /\ exit_message.text = "An exception occurred during pipeline execution"
    /\ exit_status = <<1>>

\* The raw read files of each mate, and the sample identifier of each as
\* the pairer derives it.
RawReads(suffix) ==
    {p \in files : /\ dirname(p) = args.input_dir
                   /\ \/ EndsWith(basename(p), suffix \o FASTQ)
                      \/ EndsWith(basename(p), suffix \o FASTQ_GZ)}

RawSample(p, suffix) ==
    IF EndsWith(basename(p), suffix \o FASTQ_GZ)
    THEN Replace(basename(p), suffix \o FASTQ_GZ)
    ELSE Replace(basename(p), suffix \o FASTQ)

RawFirstSamples == {RawSample(p, args.suffix1) : p \in RawReads(args.suffix1)}
RawSecondSamples == {RawSample(p, args.suffix2) : p \in RawReads(args.suffix2)}
RawCompleteSamples == RawFirstSamples \intersect RawSecondSamples
RawOneMateSamples ==
    (RawFirstSamples \union RawSecondSamples) \ RawCompleteSamples

\* process_samples has returned, or the run went on past it.
QcTrimStageOver ==
    \/ pc \in {"run_fastqc_raw", "run_fastqc_trim", "done"}
    \/ pc = "aborted" /\ invocations # <<>>
                      /\ invocations[Len(invocations)].stage # "Trim"

Keys(pf) == {pf[i].sample : i \in 1..Len(pf)}
Entries(pf) == {pf[i] : i \in 1..Len(pf)}
EachKeyOnce(pf) == \A i, j \in 1..Len(pf) : pf[i].sample = pf[j].sample => i = j
KeysWithBoth(pf) ==
    {pf[i].sample : i \in {k \in 1..Len(pf) : pf[k].R1 # NoFile /\ pf[k].R2 # NoFile}}

\* The trimmed read files of each mate below Trim_data, and the sample
\* identifier of each.
TrimmedFirstReads ==
    {p \in files : /\ Len(p) > Len(TrimDataDir(args.output_dir))
                   /\ SubSeq(p, 1, Len(TrimDataDir(args.output_dir))) = TrimDataDir(args.output_dir)
                   /\ Contains(basename(p), <<"_R1_paired">> \o FASTQ)}

TrimmedSecondReads ==
    {p \in files : /\ Len(p) > Len(TrimDataDir(args.output_dir))
                   /\ SubSeq(p, 1, Len(TrimDataDir(args.output_dir))) = TrimDataDir(args.output_dir)
                   /\ \/ EndsWith(basename(p), <<"_R2_paired">> \o FASTQ)
                      \/ EndsWith(basename(p), <<"_R2_paired">> \o FASTQ_GZ)}

TrimmedFirstSample(p) ==
    Replace(Replace(basename(p), <<"_R1_paired">> \o FASTQ_GZ), <<"_R1_paired">> \o FASTQ)

TrimmedSecondSample(p) ==
    Replace(Replace(basename(p), <<"_R2_paired">> \o FASTQ_GZ), <<"_R2_paired">> \o FASTQ)

Mates(p, q) ==
    dirname(p) = dirname(q) /\ TrimmedFirstSample(p) = TrimmedSecondSample(q)

TrimmedCompleteSamples ==
    {TrimmedFirstSample(p) : p \in {r \in TrimmedFirstReads :
                                       \E q \in TrimmedSecondReads : Mates(r, q)}}
TrimmedFirstOnly == {p \in TrimmedFirstReads : \A q \in TrimmedSecondReads : ~Mates(p, q)}
TrimmedSecondOnly == {q \in TrimmedSecondReads : \A p \in TrimmedFirstReads : ~Mates(p, q)}

\* pair_fastq_files has returned.
QcPaired == entry = "qc" /\ pc \notin {"setup_directories", "pair_fastq_files"}
AssemblyPaired ==
    /\ entry = "assembly.py"
    /\ pc \notin {"check_trimmed_data", "setup_directories", "pair_fastq_files"}
    /\ pc = "aborted" => exit_message.text # "Trimmed data directory does not exist"

\* C5 as stated: the keys of the mapping either pairer returns are exactly
\* the samples with both mates present, each once, and no key holds only
\* one mate.
C5_KeysAreCompleteSamples ==
    /\ QcPaired =>
          /\ Keys(paired) = RawCompleteSamples
          /\ KeysWithBoth(paired) = Keys(paired)
          /\ EachKeyOnce(paired)
    /\ AssemblyPaired =>
          /\ Keys(paired) = TrimmedCompleteSamples
          /\ KeysWithBoth(paired) = Keys(paired)
          /\ EachKeyOnce(paired)

\* C5 amended: the mapping of qc.py has one key, once, for every sample
\* with at least one mate present, and its keys holding both mates are
\* exactly the samples with both mates present; the mapping of assembly.py
\* has as keys, each once and each with both mates, exactly the samples
\* whose first mate has its second mate in the same directory.
C5_KeysOfEachPairer ==
    /\ QcPaired =>
          /\ Keys(paired) = RawFirstSamples \union RawSecondSamples
          /\ KeysWithBoth(paired) = RawCompleteSamples
          /\ EachKeyOnce(paired)
    /\ AssemblyPaired =>
          /\ Keys(paired) = TrimmedCompleteSamples
          /\ KeysWithBoth(paired) = Keys(paired)
          /\ EachKeyOnce(paired)

\* The pairer of qc.py returned a mapping with a key holding both mates
\* and a key holding only one.
C5_Witness ==
    /\ QcPaired
    /\ KeysWithBoth(paired) # {}
    /\ Keys(paired) \ KeysWithBoth(paired) # {}

\* C6 as stated: whatever order the file system lists the files in, the
\* pairer returns the same keys with the same file in each role.
C6_ListingOrderIrrelevant ==
    /\ QcPaired =>
          \A l1 \in QcListings(files, dirs, args.input_dir, args.suffix1, args.suffix2, FASTQ),
             l2 \in QcListings(files, dirs, args.input_dir, args.suffix1, args.suffix2, FASTQ_GZ) :
                Entries(qc_pair_fastq_files(l1, l2, args.suffix1, args.suffix2)) = Entries(paired)
    /\ AssemblyPaired =>
          Entries(assembly_pair_fastq_files(files, dirs, assembly_trimmed_data_path(args)).pairs)
              = Entries(paired)

\* The directory each stage writes to.
StageDirectory(stage, output_dir) ==
    CASE stage = "Trim" -> TrimDataDir(output_dir)
      [] stage = "QC-raw" -> RawQcDir(output_dir)
      [] stage = "QC-trimmed" -> TrimQcDir(output_dir)
      [] stage = "Assemble" -> join(AssemblyDir(output_dir), <<"contigs">>)
      [] stage = "Filter" -> FilteredContigsDir(output_dir)
      [] stage = "QC-assess-all" -> PreQuastDir(output_dir)
      [] stage = "QC-assess-filtered" -> FilteredQuastDir(output_dir)
      [] stage = "Coverage" -> CoverageDir(output_dir)
      [] stage = "Annotate" -> AnnotationDir(output_dir)

Below(d, top) == Len(d) >= Len(top) /\ SubSeq(d, 1, Len(top)) = top

\* The most specific stage directory d lies at or below.
OwnedBy(d, stage, output_dir) ==
    /\ Below(d, StageDirectory(stage, output_dir))
    /\ \A t \in {ObservedStageOrder[i] : i \in 1..Len(ObservedStageOrder)} :
          Below(d, StageDirectory(t, output_dir)) =>
              Len(StageDirectory(t, output_dir)) <= Len(StageDirectory(stage, output_dir))

LaterStages(order, stage) ==
    {order[i] : i \in {k \in 1..Len(order) : k > StageRank(order, stage)}}

CreatedByRun == dirs \ dirs0

HaltedOnFailure == pc = "aborted" /\ invocations # <<>> /\ Failed(Len(invocations))
FailedStage == invocations[Len(invocations)].stage

\* The directories each module creates in its set-up step.
SetupDirectoriesOf(module, output_dir) ==
    CASE module = "qc" ->
            {TrimDataDir(output_dir), RawQcDir(output_dir), TrimQcDir(output_dir)}
      [] module = "assembly" ->
            {join(join(AssemblyDir(output_dir), <<"contigs">>), <<"samples">>),
             join(join(AssemblyDir(output_dir), <<"contigs">>), <<"all_contigs">>),
             FilteredContigsDir(output_dir), PreQuastDir(output_dir),
             FilteredQuastDir(output_dir), CoverageDir(output_dir)}
      [] module = "annotation" -> {}

\* C7 as stated: when an invocation of stage S exits non-zero and the run
\* halts, no directory of a stage after S has been created by the run.
C7_NoLaterStageDirectory ==
    HaltedOnFailure =>
        \A d \in CreatedByRun :
            \A t \in LaterStages(SpecifiedStageOrder, FailedStage) :
                ~OwnedBy(d, t, args.output_dir)

\* C7 amended: when an invocation of stage S exits non-zero and the run
\* halts, the directories the module of S creates in its set-up step all
\* exist, and they are the only directories of stages after S the run has
\* created: no directory of a later module and no per-sample directory of
\* a later stage.
C7_OnlySetupDirectoriesOfLaterStages ==
    HaltedOnFailure =>
        LET module == invocations[Len(invocations)].module
            setup == SetupDirectoriesOf(module, args.output_dir)
        IN  /\ setup \subseteq dirs
            /\ \A d \in CreatedByRun :
                  \A t \in LaterStages(ObservedStageOrder, FailedStage) :
                      OwnedBy(d, t, args.output_dir) => d \in setup

\* An assembler invocation failed, and the run had already created the
\* filtered-contigs, Quast and Coverage directories.
C7_Witness ==
    /\ HaltedOnFailure
    /\ FailedStage = "Assemble"
    /\ {FilteredContigsDir(args.output_dir), PreQuastDir(args.output_dir),
        CoverageDir(args.output_dir)} \subseteq CreatedByRun

\* The controller has taken the configuration and entered its try block.
ConfigAccepted ==
    /\ entry = "HolmGenome"
    /\ \/ pc \in {"qc_main", "except"}
       \/ pc = "aborted" /\ exit_message.text = "An exception occurred during pipeline execution"

\* C8 as stated: for every configuration the controller accepts, Assembly
\* is given <output_dir>/Trim_data to read and Annotation is given
\* <output_dir>/Assembly/contigs/filtered_contigs.
C8_ConsumerReadsProducerOutput ==
    ConfigAccepted =>
        /\ ctl_assembly_args(args).trimmed_data_path = TrimDataDir(args.output_dir)
        /\ ctl_annotation_args(args).filtered_contigs_dir = FilteredContigsDir(args.output_dir)

WarnedAbout(subject) == \E w \in warnings : w.level = "warning" /\ w.subject = subject

\* C9 as stated: every sample with exactly one mate present is named by a
\* logged warning and is left out of per-sample processing, in the raw
\* pairing of qc.py and in the trimmed pairing of assembly.py.
C9_OneMateWarned ==
    /\ entry = "qc" /\ pc \in {"run_fastqc_raw", "run_fastqc_trim", "done"} =>
          \A s \in RawOneMateSamples :
              /\ WarnedAbout(s)
              /\ \A i \in StageRuns("Trim") : invocations[i].sample # s
    /\ AssemblyPaired =>
          /\ \A p \in TrimmedFirstOnly :
                WarnedAbout(p) \/ WarnedAbout(TrimmedFirstSample(p))
          /\ \A q \in TrimmedSecondOnly :
                WarnedAbout(q) \/ WarnedAbout(TrimmedSecondSample(q))
          /\ \A i \in 1..Len(paired) :
                paired[i].R1 \notin TrimmedFirstOnly /\ paired[i].R2 \notin TrimmedSecondOnly

\* C10 as stated: every invocation runs in an environment without
\* JAVA_TOOL_OPTIONS, whatever the environment of the run holds.
C10_NoJavaToolOptions ==
    \A i \in Runs : "JAVA_TOOL_OPTIONS" \notin invocations[i].env

\* The assembly run has gone through the step of the given stage: it is at
\* a later step, or an invocation of that stage or a later one failed.
AssemblyStepsAfter(step) ==
    LET i == CHOOSE k \in 1..Len(AssemblyMainSteps) : AssemblyMainSteps[k] = step
    IN  {AssemblyMainSteps[k] : k \in (i + 1)..Len(AssemblyMainSteps)} \union {"done"}

AssemblyPast(step, stage) ==
    /\ entry = "assembly.py"
    /\ \/ pc \in AssemblyStepsAfter(step)
       \/ /\ HaltedOnFailure
          /\ StageRank(ObservedStageOrder, FailedStage) >= StageRank(ObservedStageOrder, stage)

ContigFilesIn(dir) ==
    {p \in files : dirname(p) = dir /\ Len(p) = Len(dir) + 1 /\ EndsWith(basename(p), FASTA)}

QuastPooled(step, stage, dir) ==
    /\ Cardinality(StageRuns(stage)) <= 1
    /\ \A i \in StageRuns(stage) : invocations[i].inputs = ContigFilesIn(dir)
    /\ AssemblyPast(step, stage) /\ ContigFilesIn(dir) # {} => StageRuns(stage) # {}

\* C11: for a non-empty directory of contig files, run_quast makes exactly
\* one invocation, over every contig file of the directory, however many
\* samples there are.
C11_QuastPooled ==
    /\ QuastPooled("run_quast_pre", "QC-assess-all", AllContigsDir(args.output_dir))
    /\ QuastPooled("run_quast_filtered", "QC-assess-filtered",
                   FilteredContigsDir(args.output_dir))

\* Two samples were assembled and one quality-assessment invocation
\* received both pooled contig files.
C11_Witness ==
    /\ Cardinality(StageRuns("QC-assess-all")) = 1
    /\ \E i \in StageRuns("QC-assess-all") :
          /\ Cardinality(invocations[i].inputs) = 2
          /\ invocations[i].inputs = ContigFilesIn(AllContigsDir(args.output_dir))

\* The run has ended, one way or the other.
Ended == exit_status # <<>>

\* The directory the Filter stage writes to exists and holds no contig file.
FilteredContigsEmpty ==
    /\ args.output_dir # NoFile
    /\ FilteredContigsDir(args.output_dir) \in dirs
    /\ ContigFilesIn(FilteredContigsDir(args.output_dir)) = {}

AnnotationSubdirectories ==
    {d \in CreatedByRun : Below(d, AnnotationDir(args.output_dir))
                          /\ Len(d) > Len(AnnotationDir(args.output_dir))}

\* C12 as stated: with the filtered-contigs directory present and holding
\* no contig file, the run ends in Done with exit status 0, having made no
\* annotation invocation, logged a warning and created no per-sample
\* annotation subdirectory; this for the annotation stage run on that
\* directory and for the pipeline run of the controller.
C12_EmptyFilteredContigsCompletes ==
    /\ \/ /\ entry = "annotation.py"
          /\ annotation_filtered_contigs_dir(args) = FilteredContigsDir(args.output_dir)
       \/ ConfigAccepted
    /\ FilteredContigsEmpty
    /\ Ended
    => /\ pc = "done" /\ exit_status = <<0>>
       /\ StageRuns("Annotate") = {}
       /\ \E w \in warnings : w.module = "annotation"
       /\ AnnotationSubdirectories = {}

\* setup_directories has returned.
SetupReturned ==
    /\ entry \in {"qc", "assembly.py"}
    /\ pc \notin {"check_trimmed_data", "setup_directories"}
    /\ pc = "aborted" =>
          exit_message.text \notin {"Trimmed data directory does not exist", "FileExistsError"}

\* C13: once setup_directories of qc.py or of assembly.py has run, running
\* it again on the tree it left raises no error and leaves exactly the
\* same set of directories.
C13_SetupIdempotent ==
    /\ SetupReturned /\ entry = "qc" =>
          /\ ~qc_setup_raises(dirs, args.output_dir)
          /\ qc_setup_directories(dirs, args.output_dir) = dirs
    /\ SetupReturned /\ entry = "assembly.py" =>
          /\ ~assembly_setup_raises(dirs, AssemblyLayout(args.output_dir))
          /\ assembly_setup_directories(dirs, AssemblyLayout(args.output_dir)) = dirs

\* The layout set-up of qc.py has just run on a tree that already held
\* the trimmed-data directory, and created the rest.
C13_Witness ==
    /\ entry = "qc" /\ pc = "pair_fastq_files"
    /\ TrimDataDir(args.output_dir) \in dirs0
    /\ RawQcDir(args.output_dir) \in CreatedByRun

IsPrefix(s, t) == Len(s) <= Len(t) /\ SubSeq(t, 1, Len(s)) = s

LogPaths(lg) == {lg[i].path : i \in 1..Len(lg)}

\* C14: whatever a log file held before a step, it holds afterwards as a
\* prefix of its content; no invocation truncates or replaces a log file,
\* be its content from this run or from an earlier one.
C14_LogsAppendOnly ==
    [][\A path \in LogPaths(logs) : IsPrefix(Content(logs, path), Content(logs', path))]_vars

\* A log file that held the output of an earlier run now holds it followed
\* by the output of an invocation of this run.
C14_Witness ==
    \E path \in LogPaths(logs) :
        /\ Len(Content(logs, path)) >= 2
        /\ Content(logs, path)[1].run = "earlier run"
        /\ Content(logs, path)[Len(Content(logs, path))].run = "this run"

\* The sample identifier a contig file is named after: its name less the
\* extension.
Stem(file) == SubSeq(basename(file), 1, Len(basename(file)) - 1)

\* C15 as stated: the file pooled as all_contigs/<s>.fasta is filtered into
\* exactly filtered_contigs/<s>.fasta, the path the Coverage stage reads
\* as the reference of s, whatever the identifier s, and two samples never
\* share a filtered-contigs file.
C15_FilteredNamedAfterSample ==
    /\ \A i \in StageRuns("Filter") :
          \A file \in invocations[i].inputs :
              invocations[i].outputs =
                  {join(FilteredContigsDir(args.output_dir), Stem(file) \o FASTA)}
    /\ \A i, j \in StageRuns("Filter") :
          invocations[i].inputs # invocations[j].inputs =>
              invocations[i].outputs # invocations[j].outputs
    /\ \A i \in StageRuns("Coverage") :
          join(FilteredContigsDir(args.output_dir), invocations[i].sample \o FASTA)
              \in invocations[i].inputs

\* C16: when a run aborts because an invocation exited non-zero, the
\* terminating message names the log file that was passed to the Stage
\* Runner for that invocation, the one its output was appended to.
C16_MessageNamesLog ==
    HaltedOnFailure =>
        /\ exit_message.text = "Command failed"
        /\ exit_message.path = invocations[Len(invocations)].log
        /\ logs # <<>> /\ logs[Len(logs)].path = exit_message.path
        /\ logs[Len(logs)].run = "this run"

\* A run aborted on the assembler of a sample, and its message names that
\* sample's own log file.
C16_Witness ==
    /\ HaltedOnFailure
    /\ FailedStage = "Assemble"
    /\ exit_message.path =
          join(join(SamplesDir(args.output_dir), invocations[Len(invocations)].sample),
               <<"spades_output.log">>)

\* The assembler of sample s exited 0 at invocation i and left no
\* contigs.fasta in the directory of s.
AssembledNothing(i) ==
    /\ invocations[i].stage = "Assemble"
    /\ invocations[i].rc = 0
    /\ invocations[i].outputs \intersect files = {}

DownstreamStages == {"Filter", "QC-assess-all", "QC-assess-filtered", "Coverage", "Annotate"}

\* Invocation j is about sample s: it is run for s, or a contig file named
\* after s is among its arguments.
RefersTo(j, s) ==
    \/ invocations[j].sample = s
    \/ \E file \in invocations[j].inputs :
          EndsWith(basename(file), FASTA) /\ Stem(file) = s

\* C17 as stated: when the assembler of sample s exits 0 without leaving
\* its contigs.fasta, the run goes on, a warning is logged, and no later
\* Filter, quality-assessment, Coverage or Annotation invocation of the
\* run refers to s, whatever the output tree held when the run started.
C17_SampleWithoutContigsSkipped ==
    \A i \in Runs :
        AssembledNothing(i) =>
            /\ ~(pc = "aborted" /\ i = Len(invocations))
            /\ WarnedAbout(invocations[i].sample)
            /\ \A j \in Runs :
                  j > i /\ invocations[j].stage \in DownstreamStages =>
                      ~RefersTo(j, invocations[i].sample)

\* C18 as stated: once the read-quality stage over trimmed data is done,
\* every read file the Trim stage wrote under Trim_data in this run has
\* had exactly one read-quality invocation.
C18_EveryTrimmedFileChecked ==
    entry = "qc" /\ pc = "done" =>
        \A i \in StageRuns("Trim") :
            \A file \in invocations[i].outputs :
                Cardinality({j \in StageRuns("QC-trimmed") : invocations[j].inputs = {file}}) = 1

\* The input directory of the stage exists.
InputDirectoryExists ==
    \/ entry = "qc" /\ args.input_dir \in dirs0
    \/ entry = "assembly.py" /\ assembly_trimmed_data_path(args) \in dirs0

\* C19 as stated: for an input directory that exists, a run in which every
\* invocation exited 0 ends in Done, however many samples lack a mate and
\* even when none has both.
C19_UnmatchedPairsNeverAbort ==
    /\ InputDirectoryExists
    /\ \A i \in Runs : ~Failed(i)
    /\ Ended
    => pc = "done"

\* C20: the step that makes an invocation leaves the output directory of
\* its command and the directory of its log file in existence; no tool is
\* started on a directory the run has not created.
C20_DirectoriesBeforeInvocation ==
    [][Len(invocations') > Len(invocations) =>
          LET cmd == invocations'[Len(invocations')]
          IN  /\ cmd.outdir \in dirs'
              /\ dirname(cmd.log) \in dirs'
              /\ \A file \in cmd.outputs : dirname(file) \in dirs']_vars

\* The assembler ran for a sample in a directory this run created, which
\* also holds its log.
C20_Witness ==
    \E i \in StageRuns("Assemble") :
        /\ invocations[i].outdir \in CreatedByRun
        /\ dirname(invocations[i].log) = invocations[i].outdir

\* The read files whose base name ends with both full suffixes, for one of
\* the two extensions.
MatchesBoth(name) ==
    \E ext \in {FASTQ, FASTQ_GZ} :
        EndsWith(name, args.suffix1 \o ext) /\ EndsWith(name, args.suffix2 \o ext)

AmbiguousReads ==
    {p \in files : dirname(p) = args.input_dir /\ MatchesBoth(basename(p))}

\* C21 as stated: a read file whose base name matches both full suffixes
\* is given no mate role in the mapping the pairer of qc.py returns, and a
\* warning is logged about it.
C21_AmbiguousNotAssigned ==
    entry = "pair_fastq_files" /\ pc = "returned" =>
        \A p \in AmbiguousReads :
            /\ \A i \in 1..Len(paired) : paired[i].R1 # p /\ paired[i].R2 # p
            /\ WarnedAbout(p)

\* The samples a stage made its invocations for, in the order it made them.
SamplesOf(stage) ==
    LET of_stage == SelectSeq(invocations, LAMBDA i : i.stage = stage)
    IN  [k \in 1..Len(of_stage) |-> of_stage[k].sample]

KeySeq(pf) == [k \in 1..Len(pf) |-> pf[k].sample]

\* seq runs through its samples in the order they have in order.
InOrderOf(seq, order) ==
    \A i, j \in 1..Len(seq) :
        i < j => \E m, n \in 1..Len(order) :
                    m < n /\ order[m] = seq[i] /\ order[n] = seq[j]

\* C22 as stated: the order in which a stage makes its per-sample
\* invocations (trim, assembly, coverage) is the order every listing of the
\* same files by the file system leads to.
C22_SameOrderForEveryListing ==
    /\ QcPaired =>
          \A l1 \in QcListings(files, dirs, args.input_dir, args.suffix1, args.suffix2, FASTQ),
             l2 \in QcListings(files, dirs, args.input_dir, args.suffix1, args.suffix2, FASTQ_GZ) :
                InOrderOf(SamplesOf("Trim"),
                          KeySeq(qc_pair_fastq_files(l1, l2, args.suffix1, args.suffix2)))
    /\ AssemblyPaired =>
          \A stage \in {"Assemble", "Coverage"} :
              InOrderOf(SamplesOf(stage),
                        KeySeq(assembly_pair_fastq_files(
                                   files, dirs, assembly_trimmed_data_path(args)).pairs))

\* The half of C22 that concerns assembly.py alone.
C22_AssemblyOrder ==
    AssemblyPaired =>
        \A stage \in {"Assemble", "Coverage"} :
            InOrderOf(SamplesOf(stage),
                      KeySeq(assembly_pair_fastq_files(
                                 files, dirs, assembly_trimmed_data_path(args)).pairs))

\* The files a mapping holds for a sample in a role.
Held(pf, sample, role) ==
    {pf[i][role] : i \in {k \in 1..Len(pf) : pf[k].sample = sample}} \ {NoFile}

Last(seq) == seq[Len(seq)]

\* The role and the sample identifier the pairer of qc.py reads off a raw
\* file name, for the suffixes of the run.
QcRole(p) ==
    IF \E ext \in {FASTQ, FASTQ_GZ} : EndsWith(basename(p), args.suffix1 \o ext)
    THEN "R1" ELSE "R2"

QcSample(p) == IF QcRole(p) = "R1" THEN RawSample(p, args.suffix1) ELSE RawSample(p, args.suffix2)

\* In qc.py the later-discovered file of a sample and role is the one held,
\* for the discovery order listing, and no warning names a file.
QcLaterHeld(listing) ==
    \A s \in {QcSample(listing[k]) : k \in 1..Len(listing)}, r \in {"R1", "R2"} :
        LET D == SelectSeq(listing, LAMBDA p : QcSample(p) = s /\ QcRole(p) = r)
        IN  D # <<>> =>
                /\ Held(paired, s, r) = {Last(D)}
                /\ \A k \in 1..Len(D) : ~WarnedAbout(D[k])

\* pair_fastq_files of qc.py has just returned.
QcJustPaired == QcPaired /\ pc = "process_samples" /\ todo = paired

QcLaterDiscoveredHeld ==
    QcJustPaired =>
        \A l1 \in QcListings(files, dirs, args.input_dir, args.suffix1, args.suffix2, FASTQ),
           l2 \in QcListings(files, dirs, args.input_dir, args.suffix1, args.suffix2, FASTQ_GZ) :
              paired = qc_pair_fastq_files(l1, l2, args.suffix1, args.suffix2)
                  => QcLaterHeld(l1 \o l2)

\* The second mates lying beside a trimmed first mate.
Beside(p) == {q \in TrimmedSecondReads : Mates(p, q)}

\* The sample identifiers two or more first mates below Trim_data reduce to.
TrimmedSharedSamples ==
    {TrimmedFirstSample(p) : p \in {r \in TrimmedFirstReads :
        \E q \in TrimmedFirstReads : q # r /\ TrimmedFirstSample(q) = TrimmedFirstSample(r)}}

\* In assembly.py the file held for the first mate of such a sample is the
\* last, in sorted path order, of candidates, and its second mate the last
\* of those beside it; none of the candidates is named by a warning.
AssemblyLaterHeld(candidates) ==
    \A s \in TrimmedSharedSamples :
        LET D == sorted({p \in candidates : TrimmedFirstSample(p) = s})
        IN  D # <<>> =>
                /\ Held(paired, s, "R1") = {Last(D)}
                /\ Held(paired, s, "R2") = {Last(sorted(Beside(Last(D))))}
                /\ \A k \in 1..Len(D) : ~WarnedAbout(D[k])

\* C23 as stated: of the files that reduce to the same sample identifier
\* and mate role the mapping holds the later-discovered one, and nothing is
\* logged about the ones it replaced: in qc.py in listing order, in
\* assembly.py over all first mates in sorted path order.
C23_LaterDiscoveredHeld ==
    /\ QcLaterDiscoveredHeld
    /\ AssemblyPaired => AssemblyLaterHeld(TrimmedFirstReads)

\* C23 amended: in assembly.py the first mates that count are those with a
\* second mate beside them; the others are skipped with a warning and
\* replace nothing.
C23_LaterDiscoveredPairHeld ==
    /\ QcLaterDiscoveredHeld
    /\ AssemblyPaired => AssemblyLaterHeld({p \in TrimmedFirstReads : Beside(p) # {}})

\* Each pairer has replaced a file: qc.py the uncompressed first mate of a
\* sample by the compressed one, assembly.py likewise.
C23_Witness ==
    \/ /\ QcPaired
       /\ \E p, q \in RawReads(args.suffix1) :
             /\ p # q /\ QcSample(p) = QcSample(q)
             /\ Held(paired, QcSample(p), "R1") = {q}
    \/ /\ AssemblyPaired
       /\ \E p, q \in TrimmedFirstReads :
             /\ p # q /\ TrimmedFirstSample(p) = TrimmedFirstSample(q)
             /\ Beside(p) # {} /\ Beside(q) # {}
             /\ Held(paired, TrimmedFirstSample(p), "R1") = {q}

\* The Assembly stage has processed the sample of invocation i, and the
\* assembler's run left contigs.fasta.
AssembledContigs(i) ==
    /\ invocations[i].stage = "Assemble" /\ ~Failed(i)
    /\ Warning("assembly", "Contigs file not found for sample", invocations[i].sample)
           \notin warnings

PerSampleContigs(s) == join(join(SamplesDir(args.output_dir), s), <<"contigs", ".fasta">>)
PooledContigs(s) == join(AllContigsDir(args.output_dir), s \o FASTA)

\* C24: once the Assembly stage has processed a sample whose run produced
\* contigs.fasta, the per-sample file samples/<s>/contigs.fasta and the
\* pooled copy all_contigs/<s>.fasta both exist.
C24_BothCopiesExist ==
    \A i \in Runs :
        AssembledContigs(i) =>
            /\ PerSampleContigs(invocations[i].sample) \in files
            /\ PooledContigs(invocations[i].sample) \in files

\* A sample has been assembled and pooled, and a later sample is in turn.
C24_Witness ==
    \E i \in Runs :
        /\ AssembledContigs(i)
        /\ PerSampleContigs(invocations[i].sample) \in files
        /\ PooledContigs(invocations[i].sample) \in files
        /\ Len(invocations) > i

\* The Coverage stage has dealt with sample s: its turn of the loop is over
\* and the run has not stopped in it.
CoverageDealtWith(s) ==
    /\ entry = "assembly.py"
    /\ s \in Keys(paired)
    /\ \/ pc = "done"
       \/ /\ pc = "run_bbmap" /\ phase = "loop"
          /\ \A k \in 1..Len(todo) : todo[k].sample # s

ReferenceContigs(s) == join(FilteredContigsDir(args.output_dir), s \o FASTA)

CoverageRunsFor(s) == {i \in StageRuns("Coverage") : invocations[i].sample = s}

\* C25: the Coverage stage makes exactly one invocation for each pair whose
\* reference filtered_contigs/<sample>.fasta exists; for a pair whose
\* reference is absent it makes none, creates no Coverage/<sample>
\* directory, logs a warning and goes on to the next sample.
C25_CoveragePerReference ==
    \A s \in Keys(paired) :
        /\ Cardinality(CoverageRunsFor(s)) <= 1
        /\ CoverageDealtWith(s) =>
              IF ReferenceContigs(s) \in files \union dirs
              THEN Cardinality(CoverageRunsFor(s)) = 1
              ELSE /\ CoverageRunsFor(s) = {}
                   /\ join(CoverageDir(args.output_dir), s) \notin dirs
                   /\ Warning("assembly", "Reference contigs not found for sample", s)
                          \in warnings

\* The stage skipped a sample for its missing reference and then mapped
\* the next one.
C25_Witness ==
    \E s, t \in Keys(paired) :
        /\ CoverageDealtWith(s) /\ CoverageDealtWith(t)
        /\ ReferenceContigs(s) \notin files \union dirs
        /\ CoverageRunsFor(s) = {}
        /\ \E k, m \in 1..Len(paired) : k < m /\ paired[k].sample = s /\ paired[m].sample = t
        /\ Cardinality(CoverageRunsFor(t)) = 1

\* The run is at a pooled quality-assessment step whose contig directory
\* dir holds no contig file.
AtQuastOfEmpty(step, dir) ==
    entry = "assembly.py" /\ pc = step /\ ContigFilesIn(dir) = {}

\* The step is left with no invocation made, a warning about dir logged and
\* the run at the step after it, not ended.
QuastSkipped(step, dir) ==
    /\ invocations' = invocations
    /\ Warning("assembly", "No contig files found", dir) \in warnings'
    /\ pc' = StepAfter(AssemblyMainSteps, step)
    /\ exit_status' = <<>>

\* C26: a pooled quality-assessment step whose contig directory holds no
\* contig file makes no invocation, logs a warning, and the run goes on to
\* the next step.
C26_EmptyPoolSkipped ==
    [][/\ AtQuastOfEmpty("run_quast_pre", AllContigsDir(args.output_dir))
          => QuastSkipped("run_quast_pre", AllContigsDir(args.output_dir))
       /\ AtQuastOfEmpty("run_quast_filtered", FilteredContigsDir(args.output_dir))
          => QuastSkipped("run_quast_filtered", FilteredContigsDir(args.output_dir))]_vars

\* Both pooled steps were skipped for want of contig files and the run is at
\* the Coverage stage.
C26_Witness ==
    /\ entry = "assembly.py" /\ pc = "run_bbmap"
    /\ ContigFilesIn(AllContigsDir(args.output_dir)) = {}
    /\ ContigFilesIn(FilteredContigsDir(args.output_dir)) = {}
    /\ StageRuns("QC-assess-all") = {} /\ StageRuns("QC-assess-filtered") = {}
    /\ Warning("assembly", "No contig files found", FilteredContigsDir(args.output_dir))
           \in warnings

\* The turn of sample s in the loop of process_samples has come: it is
\* over, or the run ended in it.
QcTurnCame(s) ==
    /\ QcPaired
    /\ s \in Keys(paired)
    /\ \/ \A k \in 1..Len(todo) : todo[k].sample # s
       \/ pc = "aborted" /\ todo # <<>> /\ todo[1].sample = s

TrimRunsFor(s) == {i \in StageRuns("Trim") : invocations[i].sample = s}

\* The invocation is the one the switch chooses, with the number of output
\* files of that trimmer, all in Trim_data/<sample>/.
ChosenTrimmer(i) ==
    LET v == invocations[i]
    IN  /\ v.tool = IF args.bbduk THEN "bbduk" ELSE "trimmomatic"
        /\ Cardinality(v.outputs) = IF args.bbduk THEN 2 ELSE 4
        /\ \A f \in v.outputs : dirname(f) = join(TrimDataDir(args.output_dir), v.sample)

\* C27 as stated: for each sample with both mates the Trim stage makes
\* exactly one invocation, of the trimmer the switch chooses: four distinct
\* output files for the primary trimmer, two for the alternative, all under
\* Trim_data/<sample>/.
C27_OneTrimmerPerPair ==
    entry = "qc" =>
        /\ \A i \in StageRuns("Trim") : ChosenTrimmer(i)
        /\ \A s \in KeysWithBoth(paired) :
              QcTurnCame(s) => Cardinality(TrimRunsFor(s)) = 1

\* The same for a namespace that has the switch.
C27_WhenSwitchDefined ==
    entry = "qc" /\ args.has_bbduk =>
        /\ \A i \in StageRuns("Trim") : ChosenTrimmer(i)
        /\ \A s \in KeysWithBoth(paired) :
              QcTurnCame(s) => Cardinality(TrimRunsFor(s)) = 1

\* The Annotation stage invokes its tool at most once for a contig file,
\* and once its loop is over it has done so for every contig file of the
\* directory it was given.
AnnotationOnePerFile ==
    entry = "annotation.py" =>
        /\ \A i, j \in StageRuns("Annotate") :
              invocations[i].inputs = invocations[j].inputs => i = j
        /\ pc = "done" /\ annotation_filtered_contigs_dir(args) \in dirs =>
              \A f \in ContigFilesIn(annotation_filtered_contigs_dir(args)) :
                  \E i \in StageRuns("Annotate") : invocations[i].inputs = {f}

\* C28 as stated: one invocation per contig file of the filtered-contigs
\* directory, and no two contig files written to the same subdirectory of
\* Annotation.
C28_OnePerFileDistinctDirs ==
    /\ AnnotationOnePerFile
    /\ \A i, j \in StageRuns("Annotate") :
          invocations[i].inputs # invocations[j].inputs
              => invocations[i].outdir # invocations[j].outdir

PerSampleStages == {"Trim", "Assemble", "Coverage"}
PerFileStages == {"QC-raw", "QC-trimmed", "Filter", "Annotate"}
PooledStages == {"QC-assess-all", "QC-assess-filtered"}

\* No stage invokes its tool twice for the same sample, file or directory.
NoRepeat ==
    /\ \A i, j \in Runs :
          /\ invocations[i].stage = invocations[j].stage
          /\ \/ /\ invocations[i].stage \in PerSampleStages
                /\ invocations[i].sample = invocations[j].sample
             \/ /\ invocations[i].stage \in PerFileStages
                /\ invocations[i].inputs = invocations[j].inputs
          => i = j
    /\ \A stage \in PooledStages : Cardinality(StageRuns(stage)) <= 1

\* The run is over: main has returned or the process has exited.
RunOver == pc \in {"done", "aborted"}

\* C29: no stage invokes its tool more than once per sample, per file or,
\* for the pooled steps, per directory, whether the invocation succeeded or
\* failed; and every run, each of its invocations returning, reaches Done or
\* Aborted.
C29_NoRepeatAndEnds ==
    /\ []NoRepeat
    /\ (entry # "pair_fastq_files") ~> RunOver

\* A run went through every stage of the assembly module and returned, and
\* another ended on a failed invocation that followed a successful one.
C29_Witness ==
    \/ /\ pc = "done"
       /\ \A stage \in {"Assemble", "Filter", "QC-assess-all", "QC-assess-filtered", "Coverage"} :
             StageRuns(stage) # {}
    \/ /\ pc = "aborted" /\ Len(invocations) >= 2 /\ Failed(Len(invocations))

\* The mapping the pairer of assembly.py returns over the Trim_data the QC
\* stage has written so far.
PairedFromTrimData ==
    assembly_pair_fastq_files(files, dirs, TrimDataDir(args.output_dir)).pairs

TrimmedSuccessfully == {invocations[i].sample : i \in {k \in StageRuns("Trim") : ~Failed(k)}}

\* C30 as stated: every sample the Trim stage trimmed successfully is a key
\* of the mapping the Assembly stage's pairer reads off Trim_data, whichever
\* trimmer was used, so that after a QC stage that trimmed a sample the
\* Assembly stage finds a pair.
C30_TrimmedSamplesPaired ==
    entry = "qc" =>
        /\ TrimmedSuccessfully \subseteq Keys(PairedFromTrimData)
        /\ TrimmedSuccessfully # {} => PairedFromTrimData # <<>>

\* The same for the primary trimmer alone.
C30_PrimaryTrimmerPaired ==
    entry = "qc" /\ ~args.bbduk =>
        /\ TrimmedSuccessfully \subseteq Keys(PairedFromTrimData)
        /\ TrimmedSuccessfully # {} => PairedFromTrimData # <<>>

\* The sample identifier a trimmed first or second mate reduces to: its
\* base name without the mate suffix and extension.
TrimmedSampleOf(p) ==
    Replace(Replace(Replace(Replace(basename(p),
        <<"_R1_paired">> \o FASTQ_GZ), <<"_R1_paired">> \o FASTQ),
        <<"_R2_paired">> \o FASTQ_GZ), <<"_R2_paired">> \o FASTQ)

\* The pairs the assembly stage holds once its pairer has returned.
AssemblyPairs == IF entry = "assembly.py" THEN paired ELSE <<>>

\* C31: for every pair in the mapping returned by the pairer of assembly.py
\* over a nested Trim_data tree, the first and the second mate lie in the
\* same directory and reduce to the same sample identifier, the key of the
\* pair, and the second mate existed when the pair was formed; a mate of one
\* sample's subdirectory is never paired with a mate of another.
C31_PairsWithinOneDirectory ==
    \A i \in 1..Len(AssemblyPairs) :
        LET e == AssemblyPairs[i]
        IN  /\ dirname(e.R1) = dirname(e.R2)
            /\ TrimmedSampleOf(e.R1) = e.sample
            /\ TrimmedSampleOf(e.R2) = e.sample
            /\ e.R1 \in files
            /\ e.R2 \in files

\* The pairer has returned a pair although a first mate of the same sample
\* lies in another subdirectory than a second mate of that sample.
C31_Witness ==
    /\ AssemblyPairs # <<>>
    /\ \E p, q \in files :
          /\ Contains(basename(p), <<"_R1_paired">>)
          /\ Contains(basename(q), <<"_R2_paired">>)
          /\ TrimmedSampleOf(p) = TrimmedSampleOf(q)
          /\ dirname(p) # dirname(q)
          /\ dirname(dirname(p)) = dirname(dirname(q))

\* The trimmer invocations of a run of QC.py: one for each pair main formed.
QC_TrimRuns == IF entry = "QC.py" THEN 1..Len(paired) ELSE {}

\* The invocation received a first mate and a second mate of one sample:
\* what is left of their names without the mate suffixes is the same.
QC_MatesOfOneSample(i) ==
    /\ EndsWith(basename(paired[i].R1), args.suffix1)
    /\ EndsWith(basename(paired[i].R2), args.suffix2)
    /\ Replace(basename(paired[i].R1), args.suffix1)
         = Replace(basename(paired[i].R2), args.suffix2)

\* The directory walk of QC.py ended on an exception.
QC_WalkFailed == entry = "QC.py" /\ exit_message.text = "IndexError"

\* C32 as stated: in the QC.py variant of the trim stage every trimmer
\* invocation receives a first-mate file and a second-mate file of the same
\* sample identifier, and the directory walk completes without error for
\* every set of file names, also when a sample lacks a mate or the number
\* of files is odd.
C32_AdjacentPairsAreMates ==
    /\ \A i \in QC_TrimRuns : QC_MatesOfOneSample(i)
    /\ ~QC_WalkFailed

\* The first half alone: no trimmer invocation mixes two samples.
C32_TrimmerGetsOneSample == \A i \in QC_TrimRuns : QC_MatesOfOneSample(i)

\* The second half alone: the walk raises nothing.
C32_WalkCompletes == ~QC_WalkFailed

====
